---- MODULE Spec2Model ----
(***************************************************************************)
(* A model of linenoise.c (the oldium/jamsilva asynchronous variant): the   *)
(* edit buffer, the key dispatch of the three modes (READ, COMPLETION,      *)
(* HISTORY_SEARCH), the escape decoder with its push-back buffer, the       *)
(* history store and the linenoise() entry point.                           *)
(*                                                                         *)
(* Strings are sequences of byte values.  `buf' holds the C string kept in  *)
(* l->buf, that is the bytes before the first NUL; `len' is l->len, kept    *)
(* separately as the code keeps it.  A pointer that may be NULL is the      *)
(* empty tuple (NULL) or a one-element tuple holding the pointed string.    *)
(*                                                                         *)
(* One step of the model runs the code from one read of the terminal to    *)
(* the next one (or to the return of linenoise()), which is where the code *)
(* can be suspended.  write(), malloc() and the timer calls always succeed.*)
(***************************************************************************)
EXTENDS Integers, Sequences, FiniteSets, TLC

(* ------------------------------------------------------------------ *)
(* Program constants                                                   *)
(* ------------------------------------------------------------------ *)
LINENOISE_DEFAULT_HISTORY_MAX_LEN == 100
LINENOISE_LINE_INIT_MAX_AND_GROW == 4096
LINENOISE_COL_SPACING == 2
ANSI_ESCAPE_MAX_LEN == 16
READ_BACK_MAX_LEN == 32

RCS_NONE == 0
RCS_ERROR == -1
RCS_CLOSED == -2
RCS_CANCELLED == -3
RCS_ANSI_CURSOR_LEFT == -4
RCS_ANSI_CURSOR_RIGHT == -5
RCS_ANSI_CURSOR_UP == -6
RCS_ANSI_CURSOR_DOWN == -7
RCS_ANSI_DELETE == -8
RCS_ANSI_HOME == -9
RCS_ANSI_END == -10

(* SIZE_MAX as passed by linenoiseEditHistoryNext: any value above every  *)
(* string length; the model's integers are 32 bits wide.                  *)
SIZE_MAX == 2147483647

(* Bytes the code names in its switch statements. *)
CTRL_A == 1
CTRL_B == 2
CTRL_C == 3
CTRL_D == 4
CTRL_E == 5
CTRL_F == 6
CTRL_H == 8
TAB == 9
CTRL_K == 11
CTRL_L == 12
ENTER == 13
CTRL_N == 14
CTRL_P == 16
CTRL_R == 18
CTRL_T == 20
CTRL_U == 21
CTRL_W == 23
ESC == 27
BACKSPACE == 127

(* Width of the terminal when the window size cannot be read. *)
Cols == 80

NULL == <<>>
Ptr(s) == <<s>>
Deref(p) == p[1]

MIN(a, b) == IF a < b THEN a ELSE b

(* The prompt of the spec's scenarios, "> ". *)
prompt == <<62, 32>>
mlmode == FALSE

(* ------------------------------------------------------------------ *)
(* String helpers (strstr, strcoll in the C locale)                    *)
(* ------------------------------------------------------------------ *)
Prefix(s, n) == SubSeq(s, 1, MIN(n, Len(s)))

(* TRUE iff needle occurs in hay at 0-based offset off. *)
OccursAt(hay, needle, off) ==
    /\ off + Len(needle) <= Len(hay)
    /\ SubSeq(hay, off + 1, off + Len(needle)) = needle

(* The loop over strstr() of linenoiseHistoryFindEntry: the 0-based offset *)
(* of the last occurrence of needle in hay, -1 when there is none.         *)
LastOccurrence(hay, needle) ==
    LET offs == {o \in 0..Len(hay) : OccursAt(hay, needle, o)}
    IN IF offs = {} THEN -1 ELSE CHOOSE o \in offs : \A p \in offs : p <= o

(* strcoll(a, b) < 0 in the C locale: byte-wise lexicographic order. *)
RECURSIVE StrLess(_, _)
StrLess(a, b) ==
    IF b = <<>> THEN FALSE
    ELSE IF a = <<>> THEN TRUE
    ELSE IF Head(a) # Head(b) THEN Head(a) < Head(b)
    ELSE StrLess(Tail(a), Tail(b))

(* ------------------------------------------------------------------ *)
(* History store                                                       *)
(* ------------------------------------------------------------------ *)

(* linenoiseHistoryAdd on the pair (history, history_max_len): the new   *)
(* history.  history_len is Len(history).                                *)
linenoiseHistoryAdd_DropNewest(h, maxlen, line) ==
    IF maxlen = 0 THEN h
    ELSE IF Len(h) = maxlen
         THEN Append(SubSeq(h, 1, Len(h) - 1), line)
         ELSE Append(h, line)

linenoiseHistoryAdd(h, maxlen, line) ==
    IF maxlen = 0 THEN h
    ELSE IF Len(h) = maxlen
         THEN Append(Tail(h), line)
         ELSE Append(h, line)

(* linenoiseHistorySetMaxLen: the new (history, history_max_len). *)
linenoiseHistorySetMaxLen(h, maxlen, n) ==
    IF n < 1 THEN [history |-> h, history_max_len |-> maxlen]
    ELSE LET tocopy == IF n < Len(h) THEN n ELSE Len(h)
         IN [history |-> SubSeq(h, Len(h) - tocopy + 1, Len(h)),
             history_max_len |-> n]

(* ------------------------------------------------------------------ *)
(* Escape decoder                                                      *)
(* ------------------------------------------------------------------ *)
AnsiIdle ==
    [timer_is_active |-> FALSE, state |-> "AES_NONE", escape |-> <<>>,
     intermediate |-> <<>>, parameter |-> <<>>, final |-> 0,
     meaning |-> "ASM_C1"]

(* ansiDecode: the key of a complete sequence, RCS_NONE when unknown. *)
ansiDecode(la) ==
    IF la.meaning # "ASM_CSI" THEN RCS_NONE
    ELSE IF la.final = 65 /\ la.parameter = <<>> THEN RCS_ANSI_CURSOR_UP
    ELSE IF la.final = 66 /\ la.parameter = <<>> THEN RCS_ANSI_CURSOR_DOWN
    ELSE IF la.final = 67 /\ la.parameter = <<>> THEN RCS_ANSI_CURSOR_RIGHT
    ELSE IF la.final = 68 /\ la.parameter = <<>> THEN RCS_ANSI_CURSOR_LEFT
    ELSE IF la.final = 70 /\ la.parameter = <<>> THEN RCS_ANSI_END
    ELSE IF la.final = 72 /\ la.parameter = <<>> THEN RCS_ANSI_HOME
    ELSE IF la.final = 126 /\ la.parameter = <<49>> THEN RCS_ANSI_HOME
    ELSE IF la.final = 126 /\ la.parameter = <<51>> THEN RCS_ANSI_DELETE
    ELSE IF la.final = 126 /\ la.parameter = <<52>> THEN RCS_ANSI_END
    ELSE RCS_NONE

(* ansiAddCharacter: [la |-> the decoder after byte c, ok |-> its result]. *)
ansiAddCharacter(la, c) ==
    LET add == [la EXCEPT !.escape = Append(@, c)]
        st == la.state
        next ==
          IF la.escape = <<>> THEN
              [la |-> [add EXCEPT !.intermediate = <<>>, !.parameter = <<>>,
                                  !.meaning = "ASM_C1",
                                  !.state = "AES_INTERMEDIATE"],
               valid |-> TRUE]
          ELSE IF st = "AES_INTERMEDIATE" /\ c >= 32 /\ c <= 47 THEN
              [la |-> [add EXCEPT !.intermediate = Append(@, c)], valid |-> TRUE]
          ELSE IF st = "AES_CSI_INTERMEDIATE" /\ c >= 32 /\ c < 47 THEN
              [la |-> [add EXCEPT !.intermediate = Append(@, c)], valid |-> TRUE]
          ELSE IF st = "AES_CSI_PARAMETER" /\ c >= 32 /\ c < 47 THEN
              [la |-> [add EXCEPT !.intermediate = Append(@, c),
                                  !.state = "AES_CSI_INTERMEDIATE"],
               valid |-> TRUE]
          ELSE IF st = "AES_CSI_PARAMETER" /\ c >= 48 /\ c < 63 THEN
              [la |-> [add EXCEPT !.parameter = Append(@, c)], valid |-> TRUE]
          ELSE IF st = "AES_INTERMEDIATE" /\ c >= 48 /\ c < 127 THEN
              [la |-> IF Len(add.escape) = 2 /\ c = 91
                        THEN [add EXCEPT !.state = "AES_CSI_PARAMETER",
                                         !.meaning = "ASM_CSI"]
                      ELSE IF Len(add.escape) = 2 /\ c = 78
                        THEN [add EXCEPT !.state = "AES_SS_CHARACTER",
                                         !.meaning = "ASM_G2"]
                      ELSE IF Len(add.escape) = 2 /\ c = 79
                        THEN [add EXCEPT !.state = "AES_SS_CHARACTER",
                                         !.meaning = "ASM_G3"]
                      ELSE [add EXCEPT !.final = c, !.state = "AES_FINAL"],
               valid |-> TRUE]
          ELSE IF st \in {"AES_CSI_INTERMEDIATE", "AES_CSI_PARAMETER"}
                  /\ c >= 64 /\ c < 127 THEN
              [la |-> [add EXCEPT !.final = c, !.state = "AES_FINAL"],
               valid |-> TRUE]
          ELSE IF st = "AES_SS_CHARACTER" THEN
              [la |-> [add EXCEPT !.final = c, !.state = "AES_FINAL"],
               valid |-> TRUE]
          ELSE [la |-> la, valid |-> FALSE]
    IN [la |-> next.la,
        ok |-> next.valid /\ (Len(next.la.escape) # ANSI_ESCAPE_MAX_LEN
                              \/ next.la.state = "AES_FINAL")]

(* ------------------------------------------------------------------ *)
(* The machine: every operator below maps a record m holding the whole *)
(* program state (the struct linenoiseState `state', the globals) to   *)
(* the record after the C function of the same name has run.           *)
(* m.inp are the bytes the terminal holds for read(), m.eof says that  *)
(* read() returns 0 once they are consumed, m.out collects what the    *)
(* step writes to the terminal, m.oob records that a byte was written  *)
(* or read past the end of l->buf, m.stale that a byte was written     *)
(* through a pointer the step had handed to realloc().                 *)
(* ------------------------------------------------------------------ *)
Ev(op, text, n) == [op |-> op, text |-> text, n |-> n]

Emit(m, e) == [m EXCEPT !.out = Append(@, e)]

(* getPrompt: the temporary prompt when one is set. *)
getPrompt(m) == IF m.tempprompt # NULL THEN Deref(m.tempprompt) ELSE prompt

(* refreshSingleLine: the two loops slide the view so that the cursor is  *)
(* on the row and cut the text at the right edge (every prompt of the     *)
(* model is shorter than the row, so the first loop ends).                *)
refreshSingleLine(m) ==
    LET plen == Len(getPrompt(m))
        skip == IF plen + m.pos >= Cols THEN plen + m.pos - Cols + 1 ELSE 0
        rest == m.len - skip
        vlen == IF plen + rest > Cols THEN Cols - plen ELSE rest
    IN Emit(m, Ev("refresh",
                  SubSeq(m.buf, skip + 1, MIN(skip + vlen, Len(m.buf))),
                  m.pos - skip))

(* The two loops of refreshSingleLine on the prompt width plen, the   *)
(* columns cols and the size_t len and pos: start counts buf++.       *)
(* wrapped: a loop has taken 1 from a len or pos that was 0, and the  *)
(* size_t has become SIZE_MAX.                                        *)
RECURSIVE SlideView(_, _, _, _, _)
SlideView(plen, cols, start, len, pos) ==
    IF plen + pos >= cols
    THEN IF pos = 0 \/ len = 0
         THEN [start |-> start + 1, len |-> len, pos |-> pos, wrapped |-> TRUE]
         ELSE SlideView(plen, cols, start + 1, len - 1, pos - 1)
    ELSE [start |-> start, len |-> len, pos |-> pos, wrapped |-> FALSE]

RECURSIVE CutView(_, _, _)
CutView(plen, cols, len) ==
    IF plen + len > cols
    THEN IF len = 0 THEN [len |-> len, wrapped |-> TRUE]
         ELSE CutView(plen, cols, len - 1)
    ELSE [len |-> len, wrapped |-> FALSE]

(* The view of refreshSingleLine: the bytes buf[start .. start+len-1] *)
(* are written, and the cursor goes to column plen + pos.             *)
SingleLineView(plen, cols, len, pos) ==
    LET slid == SlideView(plen, cols, 0, len, pos)
        cut == CutView(plen, cols, slid.len)
    IN [start |-> slid.start, len |-> cut.len, pos |-> slid.pos,
        wrapped |-> slid.wrapped \/ cut.wrapped]

(* refreshMultiLine from the write of the prompt and the buffer on:  *)
(* the rows of the buffer, the newline at the end of the screen, the *)
(* row and the column of the cursor.                                 *)
MultiLineView(plen, cols, l, cur, maxrows) ==
    LET rows == (plen + l + cols - 1) \div cols
        most == IF rows > maxrows THEN rows ELSE maxrows
        newline == cur # 0 /\ cur = l /\ (cur + plen) % cols = 0
        rows2 == IF newline THEN rows + 1 ELSE rows
    IN [newline |-> newline, rows |-> rows2,
        maxrows |-> IF rows2 > most THEN rows2 ELSE most,
        rpos2 |-> (plen + cur + cols) \div cols,
        col |-> 1 + ((plen + cur) % cols)]

(* refreshLine (single line mode). *)
refreshLine(m) ==
    [refreshSingleLine(m) EXCEPT !.needs_refresh = FALSE, !.is_displayed = TRUE]

(* resetOnNewline *)
resetOnNewline(m) == [m EXCEPT !.is_displayed = FALSE, !.needs_refresh = TRUE]

linenoiseBeep(m) == Emit(m, Ev("bel", <<>>, 0))

PrintCRLF(m) == Emit(m, Ev("crlf", <<>>, 0))

(* prepareCustomOutputOnNewLine *)
prepareCustomOutputOnNewLine(m) ==
    IF m.is_displayed
    THEN LET shown == refreshLine([m EXCEPT !.pos = m.len])
         IN resetOnNewline([PrintCRLF(shown) EXCEPT !.pos = m.pos])
    ELSE m

(* ensureBufLen: grows only when the capacity is below the requested  *)
(* string length.                                                     *)
ensureBufLen(m, requestedStrLen) ==
    IF m.buflen < requestedStrLen
    THEN LET steps == (requestedStrLen - m.buflen
                        + LINENOISE_LINE_INIT_MAX_AND_GROW - 1)
                      \div LINENOISE_LINE_INIT_MAX_AND_GROW
         IN [m EXCEPT !.buflen = @ + steps * LINENOISE_LINE_INIT_MAX_AND_GROW]
    ELSE m

(* The terminator written at l->buf[l->len]: past the end of the buffer *)
(* when the string fills the whole capacity.                            *)
Terminated(m) == IF m.len >= m.buflen THEN [m EXCEPT !.oob = TRUE] ELSE m

(* The signals blockSignals adds to the mask of the process. *)
Signals == { "SIGINT", "SIGALRM", "SIGWINCH" }

(* blockSignals *)
blockSignals_Open(m) ==
    [m EXCEPT !.sigint_oldmask = m.sigmask, !.sigint_blocked = TRUE]

blockSignals(m) ==
    IF ~m.sigint_blocked
    THEN [m EXCEPT !.sigint_oldmask = m.sigmask,
                   !.sigmask = @ \cup Signals,
                   !.sigint_blocked = TRUE]
    ELSE m

(* revertSignals *)
revertSignals_KeepsMask(m) == [m EXCEPT !.sigint_blocked = FALSE]

revertSignals(m) ==
    IF m.sigint_blocked
    THEN [m EXCEPT !.sigmask = m.sigint_oldmask, !.sigint_blocked = FALSE]
    ELSE m

(* pushFrontChar *)
pushFrontChar_Back(m, c) ==
    IF c # RCS_NONE /\ Len(m.read_back_char) < READ_BACK_MAX_LEN
    THEN [m EXCEPT !.read_back_char = Append(@, c)]
    ELSE m

pushFrontChar(m, c) ==
    IF c # RCS_NONE
    THEN LET kept == IF Len(m.read_back_char) = READ_BACK_MAX_LEN
                     THEN SubSeq(m.read_back_char, 1, READ_BACK_MAX_LEN - 1)
                     ELSE m.read_back_char
         IN [m EXCEPT !.read_back_char = <<c>> \o kept]
    ELSE m

(* linenoiseEditInsert where l->len < l->buflen: the byte goes in at the *)
(* cursor and the terminator behind the line.                           *)
InsertByte(m, c) ==
    LET ins == Terminated(
                 [m EXCEPT !.buf = SubSeq(m.buf, 1, m.pos) \o <<c>>
                                   \o SubSeq(m.buf, m.pos + 1, m.len),
                           !.pos = @ + 1, !.len = @ + 1])
    IN IF m.len = m.pos /\ ~mlmode /\ Len(prompt) + ins.len < Cols
       THEN Emit(ins, Ev("write", <<c>>, 0))
       ELSE refreshLine(ins)

(* linenoiseEditInsert: with l->len >= l->buflen it grows the buffer   *)
(* and calls itself; the buffer is then longer than the line.          *)
linenoiseEditInsert(m, c) ==
    IF c >= 32 THEN
        IF m.len < m.buflen THEN InsertByte(m, c)
        ELSE InsertByte(ensureBufLen(m, m.len + 1), c)
    ELSE m

(* cancelInternal: echoes ^C in the line, then empties it. *)
cancelInternal_Silent(m) == resetOnNewline([m EXCEPT !.len = 0])

cancelInternal(m) ==
    LET echoed ==
          IF m.pos + 2 <= m.len THEN
              refreshLine([m EXCEPT !.buf = [@ EXCEPT ![m.pos + 1] = 94,
                                                     ![m.pos + 2] = 67],
                                    !.pos = m.len])
          ELSE IF m.pos + 1 = m.len THEN
              linenoiseEditInsert(
                  refreshLine([m EXCEPT !.buf = [@ EXCEPT ![m.pos + 1] = 94],
                                        !.pos = m.len]), 67)
          ELSE linenoiseEditInsert(linenoiseEditInsert(m, 94), 67)
    IN resetOnNewline([echoed EXCEPT !.len = 0])

(* linenoiseEditMoveLeft *)
linenoiseEditMoveLeft_Stays(m) == m

linenoiseEditMoveLeft(m) ==
    IF m.pos > 0 THEN refreshLine([m EXCEPT !.pos = @ - 1]) ELSE m

(* linenoiseEditMoveRight *)
linenoiseEditMoveRight(m) ==
    IF m.pos # m.len THEN refreshLine([m EXCEPT !.pos = @ + 1]) ELSE m

(* linenoiseEditDelete *)
linenoiseEditDelete_AtLeft(m) ==
    IF m.len > 0 /\ m.pos > 0
    THEN refreshLine([m EXCEPT !.buf = SubSeq(m.buf, 1, m.pos - 1)
                                         \o SubSeq(m.buf, m.pos + 1, m.len),
                               !.len = @ - 1])
    ELSE m

linenoiseEditDelete(m) ==
    IF m.len > 0 /\ m.pos < m.len
    THEN refreshLine([m EXCEPT !.buf = SubSeq(m.buf, 1, m.pos)
                                         \o SubSeq(m.buf, m.pos + 2, m.len),
                               !.len = @ - 1])
    ELSE m

(* linenoiseEditBackspace *)
linenoiseEditBackspace(m) ==
    IF m.pos > 0 /\ m.len > 0
    THEN refreshLine([m EXCEPT !.buf = SubSeq(m.buf, 1, m.pos - 1)
                                         \o SubSeq(m.buf, m.pos + 1, m.len),
                               !.pos = @ - 1, !.len = @ - 1])
    ELSE m

(* The two loops of linenoiseEditDeletePrevWord: the cursor after the  *)
(* spaces, then the word, left of position p have been skipped.        *)
RECURSIVE SkipSpaces(_, _)
SkipSpaces(b, p) == IF p > 0 /\ b[p] = 32 THEN SkipSpaces(b, p - 1) ELSE p

RECURSIVE SkipWord(_, _)
SkipWord(b, p) == IF p > 0 /\ b[p] # 32 THEN SkipWord(b, p - 1) ELSE p

(* linenoiseEditDeletePrevWord *)
linenoiseEditDeletePrevWord(m) ==
    LET newpos == SkipWord(m.buf, SkipSpaces(m.buf, m.pos))
    IN refreshLine([m EXCEPT !.buf = SubSeq(m.buf, 1, newpos)
                                       \o SubSeq(m.buf, m.pos + 1, m.len),
                             !.len = @ - (m.pos - newpos),
                             !.pos = newpos])

(* ------------------------------------------------------------------ *)
(* History navigation                                                  *)
(* ------------------------------------------------------------------ *)

(* linenoiseEditUpdateHistoryEntry: strdup(l->buf) into the entry being *)
(* edited; strdup reads up to the terminator.                           *)
linenoiseEditUpdateHistoryEntry_Skips(m) == m

linenoiseEditUpdateHistoryEntry(m) ==
    IF Len(m.history) > 1
    THEN [m EXCEPT !.history[Len(m.history) - m.history_index] = m.buf,
                   !.oob = @ \/ Len(m.buf) >= m.buflen]
    ELSE m

(* linenoiseShowHistoryEntry *)
linenoiseShowHistoryEntry(m, index, p) ==
    IF index < 0 THEN [m EXCEPT !.history_index = 0]
    ELSE IF index >= Len(m.history)
    THEN [m EXCEPT !.history_index = Len(m.history) - 1]
    ELSE LET s == m.history[Len(m.history) - index]
             grown == ensureBufLen([m EXCEPT !.history_index = index], Len(s))
         IN refreshLine(Terminated([grown EXCEPT !.buf = s, !.len = Len(s),
                                                 !.pos = MIN(Len(s), p)]))

(* linenoiseEditHistoryNext; dir is "PREV" (older) or "NEXT" (newer). *)
linenoiseEditHistoryNext(m, dir) ==
    IF Len(m.history) > 1
    THEN LET saved == linenoiseEditUpdateHistoryEntry(m)
             new_index == m.history_index + (IF dir = "PREV" THEN 1 ELSE -1)
         IN linenoiseShowHistoryEntry(saved, new_index, SIZE_MAX)
    ELSE m

(* ------------------------------------------------------------------ *)
(* Completion set and history search state                             *)
(* ------------------------------------------------------------------ *)
NoCompletions == [is_initialized |-> FALSE, cvec |-> <<>>, max_strlen |-> 0]

NoSearch ==
    [buf |-> NULL, len |-> 0, buflen |-> 0, current_index |-> 0,
     found |-> FALSE]

(* freeCompletions *)
freeCompletions_Keeps(m) == m

freeCompletions(m) == [m EXCEPT !.comp = NoCompletions]

(* setTempPrompt: a changed prompt asks for a refresh. *)
setTempPrompt(m, tempprompt) ==
    LET changed == IF tempprompt = NULL THEN TRUE
                   ELSE getPrompt(m) # Deref(tempprompt)
    IN [m EXCEPT !.needs_refresh = @ \/ changed, !.tempprompt = tempprompt]

(* freeHistorySearch *)
freeHistorySearch_Keeps(m) == m

freeHistorySearch(m) ==
    IF m.hist_search.buf # NULL
    THEN setTempPrompt([m EXCEPT !.hist_search = NoSearch,
                                 !.searched = <<>>], NULL)
    ELSE m

(* resetState: leaves the mode and drops the newest history entry. *)
resetState(m) ==
    IF m.state # "LS_NEW_LINE"
    THEN [(IF m.state = "LS_COMPLETION" THEN freeCompletions(m)
           ELSE IF m.state = "LS_HISTORY_SEARCH" THEN freeHistorySearch(m)
           ELSE m)
          EXCEPT !.history = SubSeq(@, 1, Len(@) - 1),
                 !.state = "LS_NEW_LINE"]
    ELSE m

(* setClosed *)
setClosed(m) == resetState([m EXCEPT !.is_closed = TRUE])

(* ------------------------------------------------------------------ *)
(* readChar: [m |-> the machine, c |-> the key].  c = RCS_NONE (which   *)
(* the C function never returns) stands for the call being suspended   *)
(* in pselect(); m.inread then says the machine is inside that wait.   *)
(* m.sig: a signal is pending for the wait; m.expired: the escape      *)
(* timer has run out.                                                  *)
(* ------------------------------------------------------------------ *)
Key(m, c) == [m |-> m, c |-> c]

(* The bytes of a rejected sequence go to the end of the read-back buffer. *)
FlushEscape(m) ==
    IF Len(m.read_back_char) + Len(m.ansi.escape) < READ_BACK_MAX_LEN
    THEN [m EXCEPT !.read_back_char = @ \o m.ansi.escape, !.ansi = AnsiIdle]
    ELSE [m EXCEPT !.ansi = AnsiIdle]

(* The check of the escape timer after a read. *)
TimerCheck_NoTimer(m, result, nread, errno) == Key(m, result)

TimerCheck(m, result, nread, errno) ==
    IF ~m.ansi.timer_is_active THEN Key(m, result)
    ELSE IF m.expired THEN
        LET off == [m EXCEPT !.ansi.timer_is_active = FALSE]
        IN IF result # RCS_NONE THEN Key(pushFrontChar(off, result), ESC)
           ELSE IF nread < 0 /\ errno \in {"EINTR", "EAGAIN"} THEN Key(off, ESC)
           ELSE Key(pushFrontChar(off, ESC), RCS_NONE)
    ELSE IF nread = 1 THEN
        Key([m EXCEPT !.ansi = [ansiAddCharacter(m.ansi, ESC).la
                                  EXCEPT !.timer_is_active = FALSE]], result)
    ELSE Key(m, result)

RECURSIVE readLoop(_), doRead(_), afterRead(_, _, _, _), afterTimer(_, _, _, _),
          afterEscape(_, _)

(* The byte c has been added to the pending escape sequence: a is what *)
(* ansiAddCharacter gave.                                              *)
afterEscape(m, a) ==
    IF a.ok THEN
        IF a.la.state = "AES_FINAL" THEN
            IF ansiDecode(a.la) # RCS_NONE
            THEN Key([m EXCEPT !.ansi = AnsiIdle], ansiDecode(a.la))
            ELSE readLoop([m EXCEPT !.ansi = AnsiIdle])
        ELSE readLoop([m EXCEPT !.ansi = a.la])
    ELSE readLoop(FlushEscape([m EXCEPT !.ansi = a.la]))

(* The part of the loop after the check of the escape timer, which gave *)
(* the machine t.m and the result t.c.                                  *)
afterTimer(t, nread, c, errno) ==
    IF t.c # RCS_NONE THEN t
    ELSE IF nread < 0 /\ errno = "EINTR" THEN doRead(t.m)
    ELSE IF nread < 0 THEN Key(t.m, RCS_ERROR)
    ELSE IF nread = 0 THEN Key(t.m, RCS_CLOSED)
    ELSE IF t.m.ansi.escape = <<>> /\ c # ESC THEN Key(t.m, c)
    ELSE IF t.m.ansi.escape = <<>> THEN
        readLoop([t.m EXCEPT !.ansi.timer_is_active = TRUE, !.expired = FALSE])
    ELSE afterEscape(t.m, ansiAddCharacter(t.m.ansi, c))

(* The part of the loop after the read: nread, the byte c and errno. *)
afterRead_Unseen(m0, nread, c, errno) ==
    afterTimer(TimerCheck([m0 EXCEPT !.errno = errno], RCS_NONE, nread, errno),
               nread, c, errno)

afterRead(m0, nread, c, errno) ==
    LET seen == m0.is_cancelled
        m1 == [m0 EXCEPT !.is_cancelled = FALSE, !.errno = errno]
        m2 == IF m1.needs_refresh THEN refreshLine(m1) ELSE m1
    IN afterTimer(TimerCheck(m2, IF seen THEN RCS_CANCELLED ELSE RCS_NONE,
                             nread, errno),
                  nread, c, errno)

(* The read itself: a byte, end of file, an interrupted or an empty read. *)
(* O_NONBLOCK: read() runs between revertSignals and blockSignals; else   *)
(* pselect() waits with the old mask and leaves the mask as it was.       *)
doRead(m) ==
    LET s == IF m.is_async THEN blockSignals(revertSignals(m)) ELSE m
    IN IF m.inp # <<>>
       THEN afterRead([s EXCEPT !.inp = Tail(@), !.inread = FALSE],
                      1, Head(m.inp), "0")
       ELSE IF m.eof THEN afterRead([s EXCEPT !.inread = FALSE], 0, 0, "0")
       ELSE IF m.sig
       THEN afterRead([s EXCEPT !.sig = FALSE, !.inread = FALSE], -1, 0, "EINTR")
       ELSE IF m.is_async THEN afterRead(s, -1, 0, "EAGAIN")
       ELSE Key([m EXCEPT !.inread = TRUE], RCS_NONE)

(* The top of the while loop: refresh, then the read-back buffer first. *)
readLoop(m0) ==
    LET m == IF m0.needs_refresh THEN refreshLine(m0) ELSE m0
    IN IF m.read_back_char # <<>>
       THEN Key([m EXCEPT !.read_back_char = Tail(@)], Head(m.read_back_char))
       ELSE doRead(m)

(* The key that readChar returns to the handler of the mode `mode' is *)
(* noted in the log of the step.                                      *)
Dispatched(rc, mode) ==
    IF rc.c # RCS_NONE
    THEN Key([rc.m EXCEPT !.keys = Append(@, [mode |-> mode, c |-> rc.c])], rc.c)
    ELSE rc

readChar(m) ==
    Dispatched(IF m.inread THEN doRead(m)
               ELSE IF m.is_cancelled
               THEN Key([m EXCEPT !.is_cancelled = FALSE], RCS_CANCELLED)
               ELSE readLoop(m),
               m.state)

(* ------------------------------------------------------------------ *)
(* The handlers of the three modes.  Each gives [m |-> machine,        *)
(* r |-> LinenoiseResult], r = "BLOCK" when readChar is suspended.     *)
(* ------------------------------------------------------------------ *)
Res(m, r) == [m |-> m, r |-> r]

(* The completion callbacks of the model (the host's policy): the list *)
(* of (suggestion, text, pos) each one adds for a line and a cursor.   *)
CompletionsOf(cb, line, p) ==
    IF cb = "cbOne" THEN << [suggestion |-> <<97, 98>>, text |-> <<97, 98>>, pos |-> 5] >>
    ELSE IF cb = "cbTwo"
    THEN << [suggestion |-> <<98>>, text |-> <<98>>, pos |-> 1],
            [suggestion |-> <<97, 98>>, text |-> <<97, 98>>, pos |-> 2] >>
    ELSE IF cb = "cbHello"
    THEN IF line = <<104, 101>>
         THEN << [suggestion |-> <<104, 101, 108, 108, 111>>,
                  text |-> <<104, 101, 108, 108, 111>>, pos |-> 5] >>
         ELSE <<>>
    ELSE IF cb = "cbPair"
    THEN << [suggestion |-> <<104, 101, 108, 112>>,
             text |-> <<104, 101, 108, 112>>, pos |-> 4],
            [suggestion |-> <<104, 101, 108, 108, 111>>,
             text |-> <<104, 101, 108, 108, 111>>, pos |-> 5] >>
    ELSE IF cb = "cbFull"
    THEN << [suggestion |-> <<97>>,
             text |-> [i \in 1..LINENOISE_LINE_INIT_MAX_AND_GROW |-> 97],
             pos |-> LINENOISE_LINE_INIT_MAX_AND_GROW] >>
    ELSE <<>>

(* The maximum of strlen(suggestion), as linenoiseAddCompletion keeps it. *)
RECURSIVE MaxStrlen(_)
MaxStrlen(cvec) ==
    IF cvec = <<>> THEN 0
    ELSE LET rest == MaxStrlen(Tail(cvec))
         IN IF Len(Head(cvec).suggestion) > rest
            THEN Len(Head(cvec).suggestion) ELSE rest

(* qsort with completitionCompare: ascending by suggestion. *)
RECURSIVE InsertSorted(_, _)
InsertSorted(sorted, e) ==
    IF sorted = <<>> THEN <<e>>
    ELSE IF StrLess(e.suggestion, Head(sorted).suggestion)
    THEN <<e>> \o sorted
    ELSE <<Head(sorted)>> \o InsertSorted(Tail(sorted), e)

RECURSIVE SortBySuggestion(_)
SortBySuggestion(cvec) ==
    IF cvec = <<>> THEN <<>>
    ELSE InsertSorted(SortBySuggestion(Tail(cvec)), Head(cvec))

(* The candidate printed at the place i of the listing, which has  *)
(* cols columns and rows rows and is filled column by column.       *)
real_index(i, cols, rows) == (i % cols) * rows + i \div cols

(* The indexes the printing loop of completeLine prints from the    *)
(* place i on, for n candidates.                                     *)
RECURSIVE PrintedIndexes(_, _, _, _)
PrintedIndexes(i, n, cols, rows) ==
    IF i >= n THEN <<>>
    ELSE (IF real_index(i, cols, rows) < n
          THEN << real_index(i, cols, rows) >> ELSE <<>>)
         \o PrintedIndexes(i + 1, n, cols, rows)

(* The printing loop of completeLine from index i on. *)
RECURSIVE PrintListing(_, _, _, _)
PrintListing(m, i, cols, rows) ==
    LET n == Len(m.comp.cvec)
    IN IF i >= n
       THEN IF (i % cols) # 0 THEN PrintCRLF(m) ELSE m
       ELSE LET at == real_index(i, cols, rows)
                cell == IF at < n
                        THEN Emit(m, Ev("cell", m.comp.cvec[at + 1].suggestion,
                                        m.comp.max_strlen + LINENOISE_COL_SPACING))
                        ELSE m
                line == IF (i % cols) = cols - 1 THEN PrintCRLF(cell) ELSE cell
            IN PrintListing(line, i + 1, cols, rows)

(* completeLine *)
completeLine_NoClamp(m) ==
    IF Len(m.comp.cvec) = 1
    THEN refreshLine([m EXCEPT !.buf = m.comp.cvec[1].text,
                               !.len = Len(m.comp.cvec[1].text),
                               !.pos = m.comp.cvec[1].pos])
    ELSE m

completeLine(m) ==
    LET n == Len(m.comp.cvec)
    IN IF n = 0 THEN
           LET b == linenoiseBeep(m)
           IN IF b.needs_refresh THEN refreshLine(b) ELSE b
       ELSE IF n = 1 THEN
           LET text == m.comp.cvec[1].text
               grown == ensureBufLen(m, Len(text))
           IN refreshLine(Terminated(
                  [grown EXCEPT !.buf = text, !.len = Len(text),
                                !.pos = MIN(Len(text), m.comp.cvec[1].pos)]))
       ELSE
           LET nl == prepareCustomOutputOnNewLine(m)
               sorted == [nl EXCEPT !.comp.cvec = SortBySuggestion(@)]
               colSize == m.comp.max_strlen + LINENOISE_COL_SPACING
               cols == IF Cols \div colSize = 0 THEN 1 ELSE Cols \div colSize
               rows == (n + cols - 1) \div cols
           IN refreshLine(PrintListing(sorted, 0, cols, rows))

(* case TAB of linenoiseCompletion once the list is there: again says *)
(* that the callback has just been asked.                             *)
CompletionShow(filled, again) ==
    IF ~again \/ Len(filled.comp.cvec) < 2
    THEN Res(completeLine(filled), "LR_CONTINUE")
    ELSE Res(filled, "LR_CONTINUE")

(* The callback fills the list through linenoiseAddCompletion. *)
CompletionFill(m, cvec) ==
    [m EXCEPT !.comp = [is_initialized |-> TRUE, cvec |-> cvec,
                        max_strlen |-> MaxStrlen(cvec)],
              !.rawmode = TRUE]

(* The switch of linenoiseCompletion on the key c. *)
CompletionKey(m, c) ==
    IF c = RCS_NONE THEN Res(m, "BLOCK")
    ELSE IF c = RCS_ERROR THEN Res(m, "LR_ERROR")
    ELSE IF c = TAB THEN
        IF ~m.comp.is_initialized \/ Len(m.comp.cvec) = 1
        THEN CompletionShow(
                 CompletionFill(m, CompletionsOf(m.completionCallback, m.buf, m.pos)),
                 TRUE)
        ELSE CompletionShow(m, FALSE)
    ELSE Res([pushFrontChar(freeCompletions(m), c) EXCEPT !.state = "LS_READ"],
             "LR_CONTINUE")

(* switch (c) on what readChar gave. *)
CompletionSwitch(rc) == CompletionKey(rc.m, rc.c)

(* linenoiseCompletion *)
linenoiseCompletion(m0) == CompletionSwitch(readChar(m0))

(* The format of setSearchPrompt: "(reverse-i-search`<query>'): " *)
SearchPrompt(query) ==
    <<40, 114, 101, 118, 101, 114, 115, 101, 45, 105, 45,
      115, 101, 97, 114, 99, 104, 96>> \o query \o <<39, 41, 58, 32>>

(* setSearchPrompt *)
setSearchPrompt(m) ==
    setTempPrompt(m, Ptr(SearchPrompt(Deref(m.hist_search.buf))))

(* linenoiseHistoryFindEntry: the scan from index new_index to the oldest. *)
RECURSIVE FindFrom(_, _)
FindFrom(m, new_index) ==
    IF new_index < Len(m.history) THEN
        LET historyStr == m.history[Len(m.history) - new_index]
            last_found == LastOccurrence(historyStr, Deref(m.hist_search.buf))
        IN IF last_found # -1 THEN
               LET shown == linenoiseShowHistoryEntry(
                                [setSearchPrompt(m) EXCEPT !.hist_search.found = TRUE],
                                new_index, last_found + m.hist_search.len)
               IN [shown EXCEPT !.hist_search.current_index = shown.history_index]
           ELSE FindFrom(m, new_index + 1)
    ELSE [linenoiseBeep(m) EXCEPT !.hist_search.found = FALSE]

linenoiseHistoryFindEntry(m) ==
    IF m.hist_search.len > 0 THEN FindFrom(m, m.hist_search.current_index)
    ELSE [m EXCEPT !.hist_search.found = FALSE]

(* default: of linenoiseHistorySearch, c >= 32: the query gets the   *)
(* byte c.  When it reaches hist_search_buflen the block is given to  *)
(* realloc() and the result is dropped: hist_search_buf and           *)
(* hist_search_buflen stay, the byte is written through the old       *)
(* pointer.                                                           *)
SearchAppend(m, c) ==
    [m EXCEPT !.hist_search.buf = Ptr(Append(Deref(@), c)),
              !.hist_search.len = @ + 1,
              !.stale = @ \/ m.hist_search.len + 1 >= m.hist_search.buflen]

(* default: of linenoiseHistorySearch after the lookup: found is the *)
(* flag before it.                                                  *)
SearchLooked(looked, found) ==
    IF found /\ ~looked.hist_search.found
    THEN Res([looked EXCEPT !.hist_search.current_index = @ + 1], "LR_CONTINUE")
    ELSE Res(looked, "LR_CONTINUE")

(* The search ends and gives the key c back to READ mode. *)
SearchGiveBack_Twice(m, c) ==
    Res([pushFrontChar(pushFrontChar(freeHistorySearch(m), c), c)
           EXCEPT !.state = "LS_READ"],
        "LR_CONTINUE")

SearchGiveBack(m, c) ==
    Res([pushFrontChar(freeHistorySearch(m), c) EXCEPT !.state = "LS_READ"],
        "LR_CONTINUE")

(* The switch of linenoiseHistorySearch on the key c. *)
SearchKey(m, c) ==
    LET hs == m.hist_search
    IN IF c = RCS_NONE THEN Res(m, "BLOCK")
       ELSE IF c = CTRL_C \/ c = RCS_CANCELLED THEN
           Res(resetState(PrintCRLF(cancelInternal(m))), "LR_CONTINUE")
       ELSE IF c = RCS_CLOSED THEN
           SearchGiveBack(m, c)
       ELSE IF c = RCS_ERROR THEN Res(m, "LR_ERROR")
       ELSE IF c = BACKSPACE \/ c = CTRL_H THEN
           IF hs.len > 0 THEN
               LET cut == [m EXCEPT !.hist_search.len = @ - 1,
                                    !.hist_search.buf =
                                        Ptr(SubSeq(Deref(@), 1, hs.len - 1))]
               IN IF cut.hist_search.len = 0 /\ cut.hist_search.found
                  THEN Res(refreshLine(setSearchPrompt(cut)), "LR_CONTINUE")
                  ELSE Res(linenoiseHistoryFindEntry(cut), "LR_CONTINUE")
           ELSE Res(m, "LR_CONTINUE")
       ELSE IF c = CTRL_R THEN
           IF hs.buf = NULL THEN
               IF Len(m.history) = 1
               THEN Res([linenoiseBeep(m) EXCEPT !.state = "LS_READ"], "LR_CONTINUE")
               ELSE Res(refreshLine(setSearchPrompt(
                            [m EXCEPT !.searched = Prefix(m.buf, m.len),
                                      !.hist_search =
                                 [buf |-> Ptr(<<>>), len |-> 0,
                                  buflen |-> LINENOISE_LINE_INIT_MAX_AND_GROW,
                                  current_index |-> m.history_index,
                                  found |-> hs.found]])),
                        "LR_CONTINUE")
           ELSE IF hs.len > 0 THEN
               IF hs.found
               THEN Res(linenoiseHistoryFindEntry(
                            [m EXCEPT !.hist_search.current_index = @ + 1]),
                        "LR_CONTINUE")
               ELSE Res(linenoiseBeep(m), "LR_CONTINUE")
           ELSE Res(m, "LR_CONTINUE")
       ELSE IF c >= 32 THEN
           SearchLooked(linenoiseHistoryFindEntry(SearchAppend(m, c)), hs.found)
       ELSE SearchGiveBack(m, c)

(* switch (c) on what readChar gave. *)
SearchSwitch(rc) == SearchKey(rc.m, rc.c)

(* linenoiseHistorySearch *)
linenoiseHistorySearch(m0) == SearchSwitch(readChar(m0))

(* clearScreen *)
clearScreen(m) == [Emit(m, Ev("clear", <<>>, 0)) EXCEPT !.needs_refresh = TRUE]

(* case RCS_CANCELLED: case 3: of linenoiseEdit. *)
EditCancelled_AlwaysEnds(reset, doCancel) == Res(reset, "LR_CANCELLED")

EditCancelled(reset, doCancel) ==
    IF doCancel THEN Res(reset, "LR_CANCELLED")
    ELSE Res(PrintCRLF(reset), "LR_CONTINUE")

EditCancel(m) == EditCancelled(resetState(cancelInternal(m)), m.len = 0)

(* The switch of linenoiseEdit on the key c. *)
EditKey(m, c) ==
    IF c = ENTER THEN Res(resetState(m), "LR_HAVE_TEXT")
    ELSE IF c = RCS_CANCELLED \/ c = CTRL_C THEN EditCancel(m)
    ELSE IF c = BACKSPACE \/ c = CTRL_H THEN
        Res(linenoiseEditBackspace(m), "LR_CONTINUE")
    ELSE IF c = CTRL_D THEN
        IF m.len > 0 THEN Res(linenoiseEditDelete(m), "LR_CONTINUE")
        ELSE Res(setClosed(m), "LR_CLOSED")
    ELSE IF c = CTRL_T THEN
        IF m.pos > 0 /\ m.pos < m.len
        THEN Res(refreshLine(
                 [m EXCEPT !.buf = [@ EXCEPT ![m.pos] = m.buf[m.pos + 1],
                                            ![m.pos + 1] = m.buf[m.pos]],
                           !.pos = IF m.pos # m.len - 1 THEN @ + 1 ELSE @]),
                 "LR_CONTINUE")
        ELSE Res(m, "LR_CONTINUE")
    ELSE IF c = CTRL_B \/ c = RCS_ANSI_CURSOR_LEFT THEN
        Res(linenoiseEditMoveLeft(m), "LR_CONTINUE")
    ELSE IF c = CTRL_F \/ c = RCS_ANSI_CURSOR_RIGHT THEN
        Res(linenoiseEditMoveRight(m), "LR_CONTINUE")
    ELSE IF c = CTRL_P \/ c = RCS_ANSI_CURSOR_UP THEN
        Res(linenoiseEditHistoryNext(m, "PREV"), "LR_CONTINUE")
    ELSE IF c = CTRL_N \/ c = RCS_ANSI_CURSOR_DOWN THEN
        Res(linenoiseEditHistoryNext(m, "NEXT"), "LR_CONTINUE")
    ELSE IF c = RCS_ANSI_DELETE THEN Res(linenoiseEditDelete(m), "LR_CONTINUE")
    ELSE IF c = RCS_ANSI_HOME \/ c = CTRL_A THEN
        Res(refreshLine([m EXCEPT !.pos = 0]), "LR_CONTINUE")
    ELSE IF c = RCS_ANSI_END \/ c = CTRL_E THEN
        Res(refreshLine([m EXCEPT !.pos = m.len]), "LR_CONTINUE")
    ELSE IF c = CTRL_U THEN
        Res(refreshLine([m EXCEPT !.buf = <<>>, !.pos = 0, !.len = 0]),
            "LR_CONTINUE")
    ELSE IF c = CTRL_K THEN
        Res(refreshLine([m EXCEPT !.buf = SubSeq(@, 1, m.pos), !.len = m.pos]),
            "LR_CONTINUE")
    ELSE IF c = CTRL_L THEN Res(refreshLine(clearScreen(m)), "LR_CONTINUE")
    ELSE IF c = CTRL_W THEN Res(linenoiseEditDeletePrevWord(m), "LR_CONTINUE")
    ELSE IF c = TAB THEN
        IF m.completionCallback # "NULL"
        THEN Res([pushFrontChar(m, c) EXCEPT !.state = "LS_COMPLETION"],
                 "LR_CONTINUE")
        ELSE Res(linenoiseEditInsert(m, c), "LR_CONTINUE")
    ELSE IF c = CTRL_R THEN
        Res([pushFrontChar(linenoiseEditUpdateHistoryEntry(m), c)
               EXCEPT !.state = "LS_HISTORY_SEARCH"], "LR_CONTINUE")
    ELSE Res(linenoiseEditInsert(m, c), "LR_CONTINUE")

(* The results of readChar that linenoiseEdit answers before the switch. *)
EditRead(m, c) ==
    IF c = RCS_NONE THEN Res(m, "BLOCK")
    ELSE IF c = RCS_CLOSED THEN Res(setClosed(m), "LR_CLOSED")
    ELSE IF c = RCS_ERROR THEN Res(m, "LR_ERROR")
    ELSE EditKey(m, c)

EditSwitch(rc) == EditRead(rc.m, rc.c)

(* linenoiseEdit *)
linenoiseEdit(m0) ==
    LET cleared == IF m0.pos # 0 \/ m0.len # 0
                   THEN [m0 EXCEPT !.pos = 0, !.len = 0, !.buf = <<>>,
                                   !.needs_refresh = TRUE]
                   ELSE m0
        m1 == IF m0.state = "LS_NEW_LINE"
              THEN [cleared EXCEPT
                      !.history = linenoiseHistoryAdd(@, m0.history_max_len, <<>>),
                      !.history_index = 0, !.state = "LS_READ"]
              ELSE m0
        m2 == IF m1.needs_refresh \/ ~m1.is_displayed THEN refreshLine(m1) ELSE m1
    IN EditSwitch(readChar(m2))

(* The while loop of linenoiseRaw. *)
RECURSIVE RawLoop(_), RawAgain(_)

(* while (result == LR_CONTINUE) *)
RawAgain(h) == IF h.r = "LR_CONTINUE" THEN RawLoop(h.m) ELSE h

RawLoop(m) ==
    RawAgain(IF m.state = "LS_COMPLETION" THEN linenoiseCompletion(m)
             ELSE IF m.state = "LS_HISTORY_SEARCH" THEN linenoiseHistorySearch(m)
             ELSE linenoiseEdit(m))

Returned(m, r, kind, text, errno) ==
    [m EXCEPT !.ret = [r |-> r, kind |-> kind, text |-> text, errno |-> errno],
              !.blocked = FALSE]

(* The end of linenoiseRaw (raw mode, signal mask) for result r. *)
LeaveRaw(m) ==
    IF m.gotBlocked
    THEN revertSignals([m EXCEPT !.rawmode = IF ~m.is_async THEN FALSE ELSE @])
    ELSE [m EXCEPT !.rawmode = IF ~m.is_async THEN FALSE ELSE @]

(* What linenoise() does with the result of linenoiseRaw. *)
Deliver_AlwaysLine(m, r) ==
    IF r = "LR_CANCELLED"
    THEN Returned(PrintCRLF(resetOnNewline(m)), r, "null", <<>>, "EINTR")
    ELSE Returned(PrintCRLF(resetOnNewline(m)), r, "text", Prefix(m.buf, m.len),
                  "0")

Deliver(m, r) ==
    IF r = "LR_CANCELLED"
    THEN Returned(PrintCRLF(resetOnNewline(m)), r, "null", <<>>, "EINTR")
    ELSE IF r = "LR_CLOSED" /\ m.len = 0
    THEN Returned(PrintCRLF(resetOnNewline(m)), r, "null", <<>>, "0")
    ELSE IF r = "LR_ERROR" THEN
        IF m.errno # "EAGAIN"
        THEN Returned([PrintCRLF(resetOnNewline(m))
                         EXCEPT !.rawmode = IF m.is_async THEN FALSE ELSE @],
                      r, "null", <<>>, m.errno)
        ELSE Returned(m, r, "null", <<>>, m.errno)
    ELSE LET shown == IF r = "LR_HAVE_TEXT"
                      THEN PrintCRLF(resetOnNewline(m)) ELSE m
         IN Returned([shown EXCEPT !.pos = 0, !.len = 0, !.buf = <<>>],
                     r, "text", Prefix(m.buf, m.len), "0")

(* The loop of linenoiseRaw up to the next suspension or to the return *)
(* of linenoise().                                                     *)
Leave(h) ==
    IF h.r = "BLOCK"
    THEN [h.m EXCEPT !.blocked = TRUE,
                     !.ret = [r |-> "none", kind |-> "none", text |-> <<>>,
                              errno |-> "0"]]
    ELSE Deliver(LeaveRaw(h.m), h.r)

Run(m) == Leave(RawLoop(m))

(* linenoiseRaw *)
linenoiseRaw_Reopens(m) ==
    IF m.buflen = 0 THEN Deliver([m EXCEPT !.errno = "EINVAL"], "LR_ERROR")
    ELSE Run([blockSignals(m) EXCEPT !.rawmode = TRUE,
                                     !.gotBlocked = ~m.sigint_blocked])

linenoiseRaw(m) ==
    IF m.is_closed THEN Deliver(m, "LR_CLOSED")
    ELSE IF m.buflen = 0 THEN Deliver([m EXCEPT !.errno = "EINVAL"], "LR_ERROR")
    ELSE Run([blockSignals(m) EXCEPT !.rawmode = TRUE,
                                     !.gotBlocked = ~m.sigint_blocked])

(* linenoise() on a supported terminal: ensureInitialized, linenoiseRaw. *)
linenoise(m) ==
    LET init == IF ~m.initialized
                THEN [m EXCEPT !.initialized = TRUE, !.buf = <<>>,
                               !.buflen = LINENOISE_LINE_INIT_MAX_AND_GROW]
                ELSE m
    IN linenoiseRaw([init EXCEPT !.is_async = m.nonblock,
                                 !.entrymask = m.sigmask])

(* ------------------------------------------------------------------ *)
(* The state machine                                                   *)
(* ------------------------------------------------------------------ *)
VARIABLES
    history, history_max_len,    \* the history store
    completionCallback,          \* "NULL" or the name of the host's callback
    nonblock,                    \* O_NONBLOCK is set on the input descriptor
    pending,                     \* bytes the terminal holds, not yet read
    initialized,                 \* initialize() has run
    buf, len, pos, buflen,       \* struct linenoiseState
    state, history_index, is_closed, is_cancelled, is_async,
    needs_refresh, is_displayed, tempprompt, comp, hist_search,
    read_back_char, ansi,
    rawmode, sigint_blocked, gotBlocked,
    sigmask,                     \* the signals the process has blocked
    sigint_oldmask,              \* the mask blockSignals has saved
    entrymask,                   \* the mask when linenoise() was last called
    inread,                      \* a call is inside the wait of readChar
    blocked,                     \* a call of linenoise() has not returned
    ret,                         \* what linenoise() returned in the last step
    out,                         \* what the last step wrote to the terminal
    keys,                        \* the keys readChar returned in the last step
    searched,                    \* the line when CTRL_R began the search
    oob,                         \* some step accessed l->buf past its end
    crashed,                     \* such an access has ended the process
    last,                        \* the operation of the last step
    ref,                         \* the reference editor of plain editing
    nav,                         \* the history at session start, with the index
    navprev                      \* what was shown before the last history move

vars == << history, history_max_len, completionCallback, nonblock, pending,
           initialized, buf, len, pos, buflen, state, history_index,
           is_closed, is_cancelled, is_async, needs_refresh, is_displayed,
           tempprompt, comp, hist_search, read_back_char, ansi, rawmode,
           sigint_blocked, gotBlocked, inread, blocked, ret, out, keys,
           searched, oob, crashed, last, ref, nav, navprev, sigmask,
           sigint_oldmask, entrymask >>

program == << history, history_max_len, completionCallback, nonblock, pending,
              initialized, buf, len, pos, buflen, state, history_index,
              is_closed, is_cancelled, is_async, needs_refresh, is_displayed,
              tempprompt, comp, hist_search, read_back_char, ansi, rawmode,
              sigint_blocked, gotBlocked, inread, blocked, ret, out, keys,
              searched, oob, crashed, sigmask, sigint_oldmask, entrymask >>

NoReturn == [r |-> "none", kind |-> "none", text |-> <<>>, errno |-> "0"]

(* The machine record of the current state; the terminal holds inp. *)
Machine(inp, eof, sig) ==
    [history |-> history, history_max_len |-> history_max_len,
     completionCallback |-> completionCallback, nonblock |-> nonblock,
     initialized |-> initialized, buf |-> buf, len |-> len, pos |-> pos,
     buflen |-> buflen, state |-> state, history_index |-> history_index,
     is_closed |-> is_closed, is_cancelled |-> is_cancelled,
     is_async |-> is_async, needs_refresh |-> needs_refresh,
     is_displayed |-> is_displayed, tempprompt |-> tempprompt, comp |-> comp,
     hist_search |-> hist_search, read_back_char |-> read_back_char,
     ansi |-> ansi, rawmode |-> rawmode, sigint_blocked |-> sigint_blocked,
     gotBlocked |-> gotBlocked, inread |-> inread, blocked |-> blocked,
     ret |-> NoReturn, out |-> <<>>, keys |-> <<>>,
     searched |-> searched, sigmask |-> sigmask,
     sigint_oldmask |-> sigint_oldmask, entrymask |-> entrymask,
     oob |-> FALSE,
     stale |-> FALSE, errno |-> "0",
     expired |-> FALSE, inp |-> inp, eof |-> eof, sig |-> sig]

(* The next state is the machine m.  An access past the end of l->buf  *)
(* or through a pointer given to realloc() is undefined: the process   *)
(* goes on or is ended.                                                *)
Commit(m) ==
    /\ history' = m.history
    /\ history_max_len' = m.history_max_len
    /\ completionCallback' = m.completionCallback
    /\ nonblock' = m.nonblock
    /\ pending' = m.inp
    /\ initialized' = m.initialized
    /\ buf' = m.buf
    /\ len' = m.len
    /\ pos' = m.pos
    /\ buflen' = m.buflen
    /\ state' = m.state
    /\ history_index' = m.history_index
    /\ is_closed' = m.is_closed
    /\ is_cancelled' = m.is_cancelled
    /\ is_async' = m.is_async
    /\ needs_refresh' = m.needs_refresh
    /\ is_displayed' = m.is_displayed
    /\ tempprompt' = m.tempprompt
    /\ comp' = m.comp
    /\ hist_search' = m.hist_search
    /\ read_back_char' = m.read_back_char
    /\ ansi' = m.ansi
    /\ rawmode' = m.rawmode
    /\ sigint_blocked' = m.sigint_blocked
    /\ gotBlocked' = m.gotBlocked
    /\ inread' = m.inread
    /\ blocked' = m.blocked
    /\ ret' = m.ret
    /\ out' = m.out
    /\ keys' = m.keys
    /\ searched' = m.searched
    /\ sigmask' = m.sigmask
    /\ sigint_oldmask' = m.sigint_oldmask
    /\ entrymask' = m.entrymask
    /\ oob' = (oob \/ m.oob)
    /\ crashed' \in (IF m.oob \/ m.stale THEN BOOLEAN ELSE {FALSE})

(* A call of linenoise(), or the call that waits going on. *)
Enter(m) == IF blocked THEN Run(m) ELSE linenoise(m)

(* ------------------------------------------------------------------ *)
(* Bounds and inputs                                                   *)
(* ------------------------------------------------------------------ *)
MaxLen == 2          \* Spec: bytes in a line the user types into
MaxQuery == 1        \* bytes typed into the search query
MaxHistory == 1      \* Spec: entries the host adds while the history is not full
MaxCap == 1          \* Spec: largest cap the host sets
EditLen == 4         \* SpecEdit: bytes in a line the user types into
NavLen == 2          \* SpecNav: bytes in a line the user types into
NavHistory == 2      \* SpecNav: entries added while the history is not full
NavCap == 2          \* SpecNav: largest cap the host sets
HistLen == 3         \* SpecHist: entries added while the history is not full
HistCap == 3         \* SpecHist: largest cap the host sets
SearchLen == 1       \* SpecSearch: bytes typed into a line
SearchQuery == 2     \* SpecSearch: bytes typed into the search query
SearchHistory == 2   \* SpecSearch: lines the host adds
ViewMax == 3         \* SpecView: prompt width, columns and line length
ListMax == 6         \* SpecView: candidates and columns of a listing
PairLen == 2         \* SpecPair: bytes in a line
PairHistory == 1     \* SpecPair: entries the host adds
ClosedLen == 2       \* SpecClosed: bytes in a line
ClosedHistory == 2   \* SpecClosed: entries the host adds
ViewRows == 2        \* SpecView: rows used by the line before
AnsiLen == 1         \* SpecAnsi: bytes typed into a line
RewindLen == 4       \* SpecRewind: the longest line plus the letter of a pair
TripBack == 2        \* SpecTrip: how far LEFT moves from the end of the line
TripMax == 3         \* SpecTrip: letters typed before the BACKSPACEs
FlagLen == 1         \* SpecFlag: bytes typed into a line
MaskLen == 1         \* SpecMask: bytes typed into a line
EscLen == 2          \* SpecEsc: bytes typed into a line
EscHistory == 1      \* SpecEsc: lines the host adds
GrowSlack == 2       \* SpecGrow: bytes below and above the capacity
CompLen == 2         \* SpecComp: bytes in a line the user types into

(* The byte sequences the terminal sends for the named keys. *)
KEY_UP == <<ESC, 91, 65>>
KEY_DOWN == <<ESC, 91, 66>>
KEY_RIGHT == <<ESC, 91, 67>>
KEY_LEFT == <<ESC, 91, 68>>
KEY_END == <<ESC, 91, 70>>
KEY_HOME == <<ESC, 91, 72>>
KEY_DELETE == <<ESC, 91, 51, 126>>

Printable(ks) == Len(ks) = 1 /\ ks[1] >= 32 /\ ks[1] # BACKSPACE

(* Spec: the keys that end a call or change the mode, with one letter. *)
Keys ==
    { <<97>>, <<ENTER>>, <<CTRL_C>>, <<CTRL_D>>, <<BACKSPACE>>, <<TAB>>,
      <<CTRL_R>>, KEY_UP, KEY_LEFT }

Lines == { <<97>> }

Callbacks == { "NULL", "cbOne", "cbTwo" }

(* SpecEdit: the editing keys, "abcx" and the keys that end a call. *)
EditKeys ==
    { <<97>>, <<98>>, <<99>>, <<120>>, <<ENTER>>, <<BACKSPACE>>, <<CTRL_A>>,
      <<CTRL_B>>, <<CTRL_E>>, <<CTRL_F>>, <<CTRL_H>>, <<CTRL_K>>, <<CTRL_L>>,
      <<CTRL_T>>, <<CTRL_U>>, <<CTRL_W>>, KEY_LEFT, KEY_RIGHT, KEY_HOME,
      KEY_END, KEY_DELETE }

(* SpecNav: the history keys and a letter; "1" and "2" in the history. *)
NavKeys == { <<120>>, <<ENTER>>, KEY_UP, KEY_DOWN }

PairLines == { <<97>> }
PairCallbacks == { "NULL", "cbOne" }
PairKeys == { <<97>>, <<ENTER>>, <<BACKSPACE>>, <<TAB>>, <<CTRL_R>>,
              <<CTRL_P>>, <<CTRL_C>>, <<CTRL_D>> }
ClosedLines == { <<49>> }
ClosedKeys == { <<97>>, <<CTRL_D>>, <<CTRL_D, 97>>, <<ENTER>> }
NavLines == { <<49>>, <<50>> }

(* SpecSearch: two lines to find, the bytes of their queries, and the *)
(* keys that end a search.                                            *)
SearchLines == { <<97, 98, 97>>, <<98>> }
SearchKeys == { <<CTRL_R>>, <<97>>, <<98>>, <<BACKSPACE>>, <<ENTER>>,
                <<CTRL_C>>, KEY_UP }

(* SpecAnsi: the bytes of escape sequences one at a time ("[", "1",  *)
(* "?", " ", "A", "~"), and whole sequences that are no key: CSI 2~, *)
(* CSI 1A, CSI ?25h and SS3 P.                                      *)
AnsiBytes == { <<ESC>>, <<91>>, <<49>>, <<63>>, <<32>>, <<65>>, <<126>>,
               <<ENTER>> }
UnknownKeys == { <<ESC, 91, 50, 126>>, <<ESC, 91, 49, 65>>,
                 <<ESC, 91, 63, 50, 53, 104>>, <<ESC, 79, 80>> }

(* SpecRewind: the keys that build a query, and a letter followed by *)
(* BACKSPACE, read at once.                                         *)
RewindKeys == { <<CTRL_R>>, <<97>>, <<98>> }
RewindPairs == { <<97, BACKSPACE>>, <<98, BACKSPACE>> }

(* SpecTrip: n letters and then n times BACKSPACE, read at once, and *)
(* the keys that move the cursor.                                   *)
Trip(n) == [i \in 1..(2 * n) |-> IF i <= n THEN 97 + i ELSE BACKSPACE]
TripKeys == { Trip(n) : n \in 1..TripMax }
TripMoves == { KEY_LEFT, KEY_HOME, <<98>> }

(* SpecFlag: ESC alone, a letter, and the keys that end a call or a *)
(* mode.                                                           *)
FlagKeys == { <<ESC>>, <<97>>, <<ENTER>>, <<TAB>> }
FlagCallbacks == { "cbOne" }

(* SpecMask: the masks of the host, and the keys that end a call. *)
HostMasks == { {}, {"SIGINT"}, {"SIGALRM", "SIGUSR1"} }
MaskKeys == { <<97>>, <<ENTER>>, <<CTRL_C>>, <<CTRL_D>> }

(* SpecEsc: the bytes of the sequence of UP one by one, the two after  *)
(* ESC together, UP as a whole, and ENTER; what may come late after an *)
(* ESC; "1" in the history.                                            *)
EscKeys == { <<ESC>>, <<91>>, <<65>>, <<91, 65>>, KEY_UP, <<ENTER>> }
LateKeys == { <<>>, <<91>>, <<91, 65>> }
EscLines == { <<49>> }

(* SpecQuery: the bytes of the query and the key that looks further. *)
QueryKeys == { <<97>>, <<98>>, <<CTRL_R>> }

(* SpecGrow: a letter, the keys that replace the whole line, and HOME. *)
GrowKeys == { <<97>>, <<TAB>>, KEY_UP, KEY_DOWN, KEY_HOME }

(* SpecComp: "h", "e", TAB and ENTER; the callbacks "cbOne" (one      *)
(* candidate "ab" with the cursor 5), "cbHello" ("hello" for the line *)
(* "he", nothing else) and "cbPair" ("help" and "hello").             *)
CompKeys == { <<104>>, <<101>>, <<TAB>>, <<ENTER>> }

CompCallbacks == { "cbOne", "cbHello", "cbPair" }

(* A line of n letters. *)
Filled(n) == [i \in 1..n |-> 97]

(* SpecHist: the lines the host adds. *)
HistLines == { <<97>>, <<98>>, <<99>> }

(* ------------------------------------------------------------------ *)
(* Observers: the reference editor of plain editing, the reference     *)
(* history walk, and the log of the last history moves.                *)
(* ------------------------------------------------------------------ *)

(* No cancel and no unread key is waiting for the next read. *)
Quiet == ~is_cancelled /\ pending = <<>>

(* The line under edit, as the caller would get it. *)
Line == IF state = "LS_NEW_LINE" THEN <<>> ELSE Prefix(buf, len)

RefIdle == [ok |-> FALSE, buf |-> <<>>, pos |-> 0]

RefStart ==
    IF Quiet /\ ~is_closed THEN [ok |-> TRUE, buf |-> <<>>, pos |-> 0]
    ELSE RefIdle

(* The reference editor: insert at the cursor, moves clamped to [0, length]. *)
RefKey(r, ks) ==
    IF ~r.ok THEN RefIdle
    ELSE IF Printable(ks)
    THEN [r EXCEPT !.buf = SubSeq(r.buf, 1, r.pos) \o ks
                           \o SubSeq(r.buf, r.pos + 1, Len(r.buf)),
                   !.pos = @ + 1]
    ELSE IF ks = KEY_LEFT THEN [r EXCEPT !.pos = IF @ > 0 THEN @ - 1 ELSE 0]
    ELSE IF ks = KEY_RIGHT
    THEN [r EXCEPT !.pos = IF @ < Len(r.buf) THEN @ + 1 ELSE Len(r.buf)]
    ELSE IF ks = KEY_HOME THEN [r EXCEPT !.pos = 0]
    ELSE IF ks = KEY_END THEN [r EXCEPT !.pos = Len(r.buf)]
    ELSE IF ks = <<ENTER>> THEN r
    ELSE RefIdle

NavIdle == [ok |-> FALSE, h0 |-> <<>>, idx |-> 0]

NavStart ==
    IF Quiet /\ ~is_closed THEN [ok |-> TRUE, h0 |-> history, idx |-> 0]
    ELSE NavIdle

(* The reference walk: idx entries back from the newest of h0. *)
NavKey(v, ks) ==
    IF ~v.ok THEN NavIdle
    ELSE IF ks = KEY_UP
    THEN [v EXCEPT !.idx = IF @ < Len(v.h0) THEN @ + 1 ELSE @]
    ELSE IF ks = KEY_DOWN THEN [v EXCEPT !.idx = IF @ > 0 THEN @ - 1 ELSE 0]
    ELSE IF ks = <<ENTER>> THEN v
    ELSE NavIdle

NavShown(v) == IF v.idx = 0 THEN <<>> ELSE v.h0[Len(v.h0) - v.idx + 1]

(* The index and the line shown before a history move in READ mode. *)
NavPrevKey(ks) ==
    IF ks \in {KEY_UP, KEY_DOWN} /\ state = "LS_READ" /\ Quiet
    THEN << [idx |-> history_index, B |-> Line] >>
    ELSE <<>>

(* ------------------------------------------------------------------ *)
(* Actions                                                             *)
(* ------------------------------------------------------------------ *)
(* The operation of a step: its name and argument, the number of     *)
(* history entries and the mode (l->state) before it.                *)
Event(op, arg) ==
    [op |-> op, arg |-> arg, n |-> Len(history), mode |-> state]

Idle == ~crashed /\ ~blocked /\ state = "LS_NEW_LINE"

(* A step of the host outside linenoise(): nothing is written or     *)
(* returned, and the observers of the last session are switched off. *)
HostStep ==
    /\ out' = <<>> /\ keys' = <<>> /\ ret' = NoReturn
    /\ searched' = searched
    /\ UNCHANGED << sigmask, sigint_oldmask, entrymask >>
    /\ ref' = RefIdle /\ nav' = NavIdle /\ navprev' = <<>>

(* The host adds a line to the history between two sessions; it adds *)
(* at most `bound' lines to a history that is not full.              *)
HistoryAdd(line, bound) ==
    /\ Idle
    /\ Len(history) < bound \/ Len(history) = history_max_len
    /\ history' = linenoiseHistoryAdd(history, history_max_len, line)
    /\ last' = Event("HistoryAdd", line)
    /\ HostStep
    /\ UNCHANGED << history_max_len, completionCallback, nonblock, pending,
                    initialized, buf, len, pos, buflen, state, history_index,
                    is_closed, is_cancelled, is_async, needs_refresh,
                    is_displayed, tempprompt, comp, hist_search,
                    read_back_char, ansi, rawmode, sigint_blocked, gotBlocked,
                    inread, blocked, oob, crashed >>

(* The host sets the cap of the history; 0 is refused. *)
HistorySetMaxLen(n) ==
    /\ Idle
    /\ LET r == linenoiseHistorySetMaxLen(history, history_max_len, n)
       IN /\ history' = r.history
          /\ history_max_len' = r.history_max_len
    /\ last' = Event("HistorySetMaxLen", <<n>>)
    /\ HostStep
    /\ UNCHANGED << completionCallback, nonblock, pending,
                    initialized, buf, len, pos, buflen, state, history_index,
                    is_closed, is_cancelled, is_async, needs_refresh,
                    is_displayed, tempprompt, comp, hist_search,
                    read_back_char, ansi, rawmode, sigint_blocked, gotBlocked,
                    inread, blocked, oob, crashed >>

(* linenoiseSetCompletionCallback *)
SetCompletionCallback(cb) ==
    /\ Idle
    /\ cb # completionCallback
    /\ completionCallback' = cb
    /\ last' = Event("SetCompletionCallback", <<>>)
    /\ HostStep
    /\ UNCHANGED << history, history_max_len, nonblock, pending,
                    initialized, buf, len, pos, buflen, state, history_index,
                    is_closed, is_cancelled, is_async, needs_refresh,
                    is_displayed, tempprompt, comp, hist_search,
                    read_back_char, ansi, rawmode, sigint_blocked, gotBlocked,
                    inread, blocked, oob, crashed >>

(* The host changes its signal mask (pthread_sigmask) between two calls *)
(* of linenoise().                                                      *)
SetMask(mask) ==
    /\ ~crashed /\ ~blocked
    /\ mask # sigmask
    /\ sigmask' = mask
    /\ last' = Event("SetMask", <<>>)
    /\ out' = <<>> /\ keys' = <<>> /\ ret' = NoReturn
    /\ ref' = RefIdle /\ nav' = NavIdle /\ navprev' = <<>>
    /\ UNCHANGED << history, history_max_len, completionCallback, nonblock,
                    pending, initialized, buf, len, pos, buflen, state,
                    history_index, is_closed, is_cancelled, is_async,
                    needs_refresh, is_displayed, tempprompt, comp, hist_search,
                    read_back_char, ansi, rawmode, sigint_blocked, gotBlocked,
                    inread, blocked, searched, oob, crashed, sigint_oldmask,
                    entrymask >>

(* The arguments and the result of a function of the display are     *)
(* noted as the event and the output of the step.                     *)
Applied(name, args, result) ==
    /\ last' = Event(name, args)
    /\ out' = << result >>
    /\ keys' = <<>> /\ ret' = NoReturn
    /\ ref' = RefIdle /\ nav' = NavIdle /\ navprev' = <<>>
    /\ UNCHANGED << history, history_max_len, completionCallback, nonblock,
                    pending, initialized, buf, len, pos, buflen, state,
                    history_index, is_closed, is_cancelled, is_async,
                    needs_refresh, is_displayed, tempprompt, comp, hist_search,
                    read_back_char, ansi, rawmode, sigint_blocked, gotBlocked,
                    inread, blocked, searched, oob, crashed, sigmask,
                    sigint_oldmask, entrymask >>

(* refreshSingleLine with a prompt of plen columns on a terminal of   *)
(* cols columns, for a line of length len with the cursor at pos.     *)
RefreshSingle(plen, cols, l, cur) ==
    /\ ~crashed /\ ~blocked
    /\ LET view == SingleLineView(plen, cols, l, cur)
       IN Applied("refreshSingleLine", <<plen, cols, l, cur>>,
                  Ev(IF view.wrapped THEN "wrapped" ELSE "view",
                     <<view.start, view.len>>, view.pos))

(* refreshMultiLine with a prompt of plen columns on a terminal of   *)
(* cols columns, for a line of length len with the cursor at pos and  *)
(* maxrows rows used before.                                          *)
RefreshMulti(plen, cols, l, cur, maxrows) ==
    /\ ~crashed /\ ~blocked
    /\ LET view == MultiLineView(plen, cols, l, cur, maxrows)
       IN Applied("refreshMultiLine", <<plen, cols, l, cur, maxrows>>,
                  Ev(IF view.newline THEN "newline" ELSE "view",
                     <<view.rows, view.maxrows>>, view.rpos2))

(* The listing of completeLine for n candidates in cols columns.    *)
ListCandidates(n, cols) ==
    /\ ~crashed /\ ~blocked
    /\ LET rows == (n + cols - 1) \div cols
       IN Applied("completeLine", <<n, cols>>,
                  Ev("listing", PrintedIndexes(0, n, cols, rows), rows))

(* The host calls linenoise() while the terminal sends nothing new. *)
Call ==
    /\ ~crashed /\ ~blocked
    /\ Commit(linenoise(Machine(pending, FALSE, FALSE)))
    /\ last' = Event("Call", <<>>)
    /\ ref' = IF state = "LS_NEW_LINE" THEN RefStart
              ELSE IF Quiet THEN ref ELSE RefIdle
    /\ nav' = IF state = "LS_NEW_LINE" THEN NavStart
              ELSE IF Quiet THEN nav ELSE NavIdle
    /\ navprev' = IF state # "LS_NEW_LINE" /\ Quiet THEN navprev ELSE <<>>

(* The terminal sends the bytes ks of one key: the waiting call reads  *)
(* them, or the host calls linenoise() to read them.  At most maxlen   *)
(* bytes are typed into a line and maxquery bytes into a search query. *)
KeyTyped(ks, maxlen, maxquery) ==
    /\ ~crashed /\ ~is_closed /\ pending = <<>>
    /\ blocked \/ ~is_cancelled
    /\ Printable(ks) =>
          IF state = "LS_HISTORY_SEARCH" THEN hist_search.len < maxquery
          ELSE Len(Line) < maxlen
    /\ Commit(Enter(Machine(ks, FALSE, FALSE)))
    /\ last' = Event("Key", ks)
    /\ ref' = IF ~Quiet THEN RefIdle
              ELSE RefKey(IF state = "LS_NEW_LINE" THEN RefStart ELSE ref, ks)
    /\ nav' = IF ~Quiet THEN NavIdle
              ELSE NavKey(IF state = "LS_NEW_LINE" THEN NavStart ELSE nav, ks)
    /\ navprev' = NavPrevKey(ks)

KeyPress(ks, maxlen) == KeyTyped(ks, maxlen, MaxQuery)

(* The bytes of ks that go into the line when no escape sequence is   *)
(* under way.                                                         *)
TextBytes(ks) ==
    IF ks # <<>> /\ ks[1] = ESC THEN 0
    ELSE Len(SelectSeq(ks, LAMBDA b : b >= 32 /\ b # BACKSPACE))

(* The terminal sends the bytes ks, and linenoise() reads them at      *)
(* once.  late: they come more than ANSI_ESCAPE_WAIT_MS after an ESC,  *)
(* and the host (O_NONBLOCK) calls linenoise() only now, with ks or    *)
(* with nothing to read.                                               *)
Arrive(ks, late, maxlen) ==
    /\ ~crashed /\ ~is_closed /\ pending = <<>> /\ ~is_cancelled
    /\ late => (ansi.timer_is_active /\ ~blocked)
    /\ ~late => ks # <<>>
    /\ Len(Line) + TextBytes(ks) <= maxlen
    /\ Commit(Enter([Machine(ks, FALSE, FALSE) EXCEPT !.expired = late]))
    /\ last' = Event(IF late THEN "Late" ELSE "Key", ks)
    /\ ref' = RefIdle
    /\ nav' = NavIdle
    /\ navprev' = <<>>

(* Two runs on the same input: the variables are the run on a        *)
(* terminal with O_NONBLOCK, ref is the machine of the run on the      *)
(* same terminal without it.  The run of ref starts from the state of  *)
(* the variables between two lines.                                    *)
Twin ==
    IF ref = RefIdle
    THEN [Machine(<<>>, FALSE, FALSE) EXCEPT !.nonblock = FALSE]
    ELSE ref

(* The machine m goes on with the input inp. *)
Resumed(m, inp) ==
    [m EXCEPT !.ret = NoReturn, !.out = <<>>, !.keys = <<>>, !.oob = FALSE,
              !.stale = FALSE, !.errno = "0", !.expired = FALSE,
              !.inp = inp, !.eof = FALSE, !.sig = FALSE]

(* A call of linenoise() by the machine m, or its waiting call going on. *)
EnterTwin(m) == IF m.blocked THEN Run(m) ELSE linenoise(m)

(* The host of the O_NONBLOCK run calls linenoise() with nothing to    *)
(* read; the host of the other run calls it unless its call waits.     *)
PairCall ==
    /\ ~crashed /\ nonblock /\ ~is_cancelled
    /\ Commit(linenoise(Machine(pending, FALSE, FALSE)))
    /\ ref' = IF Twin.blocked THEN Resumed(Twin, Twin.inp)
              ELSE linenoise(Resumed(Twin, Twin.inp))
    /\ last' = Event("Call", <<>>)
    /\ nav' = NavIdle
    /\ navprev' = <<>>

(* The terminal sends the bytes ks of one key to both runs. *)
PairKey(ks, maxlen, maxquery) ==
    /\ ~crashed /\ nonblock /\ ~is_closed /\ ~is_cancelled
    /\ pending = <<>>
    /\ Printable(ks) =>
          IF state = "LS_HISTORY_SEARCH" THEN hist_search.len < maxquery
          ELSE Len(Line) < maxlen
    /\ Commit(Enter(Machine(ks, FALSE, FALSE)))
    /\ ref' = EnterTwin(Resumed(Twin, Twin.inp \o ks))
    /\ last' = Event("Key", ks)
    /\ nav' = NavIdle
    /\ navprev' = <<>>

(* The timer of the escape sequence runs out while a call waits in     *)
(* pselect(): SIGALRM interrupts the wait.                             *)
Expire ==
    /\ ~crashed /\ ~is_closed /\ pending = <<>>
    /\ blocked /\ ansi.timer_is_active
    /\ Commit(Run([Machine(<<>>, FALSE, TRUE) EXCEPT !.expired = TRUE]))
    /\ last' = Event("Expire", <<>>)
    /\ ref' = RefIdle
    /\ nav' = NavIdle
    /\ navprev' = <<>>

(* The input reaches its end: read() returns 0. *)
Eof ==
    /\ ~crashed /\ ~is_closed
    /\ Commit(Enter(Machine(pending, TRUE, FALSE)))
    /\ last' = Event("Eof", <<>>)
    /\ ref' = RefIdle
    /\ nav' = NavIdle
    /\ navprev' = <<>>

(* linenoiseCancel(): from a handler of SIGINT, which interrupts the   *)
(* wait of a call, or from another thread, which does not.  The signal *)
(* reaches a waiting call through the mask given to pselect(); the     *)
(* event of a signal that has interrupted the wait has the arg <<1>>.  *)
Cancel(signal) ==
    /\ ~crashed /\ ~is_closed /\ ~is_cancelled
    /\ (blocked /\ signal) => "SIGINT" \notin sigint_oldmask
    /\ IF blocked /\ signal
       THEN Commit(Run([Machine(pending, FALSE, TRUE)
                          EXCEPT !.is_cancelled = TRUE]))
       ELSE /\ is_cancelled' = TRUE
            /\ out' = <<>> /\ keys' = <<>> /\ ret' = NoReturn
            /\ searched' = searched
            /\ UNCHANGED << sigmask, sigint_oldmask, entrymask >>
            /\ UNCHANGED << history, history_max_len, completionCallback,
                            nonblock, pending, initialized, buf, len, pos,
                            buflen, state, history_index, is_closed, is_async,
                            needs_refresh, is_displayed, tempprompt, comp,
                            hist_search, read_back_char, ansi, rawmode,
                            sigint_blocked, gotBlocked, inread, blocked,
                            oob, crashed >>
    /\ last' = Event("Cancel", IF blocked /\ signal THEN <<1>> ELSE <<>>)
    /\ ref' = RefIdle
    /\ nav' = NavIdle
    /\ navprev' = <<>>

(* ------------------------------------------------------------------ *)
(* Specifications                                                      *)
(* ------------------------------------------------------------------ *)
Init ==
    /\ history = <<>>
    /\ history_max_len = LINENOISE_DEFAULT_HISTORY_MAX_LEN
    /\ completionCallback = "NULL"
    /\ nonblock \in BOOLEAN
    /\ pending = <<>>
    /\ initialized = FALSE
    /\ buf = <<>> /\ len = 0 /\ pos = 0 /\ buflen = 0
    /\ state = "LS_NEW_LINE"
    /\ history_index = 0
    /\ is_closed = FALSE /\ is_cancelled = FALSE /\ is_async = FALSE
    /\ needs_refresh = FALSE /\ is_displayed = FALSE
    /\ tempprompt = NULL
    /\ comp = NoCompletions
    /\ hist_search = NoSearch
    /\ read_back_char = <<>>
    /\ ansi = AnsiIdle
    /\ rawmode = FALSE /\ sigint_blocked = FALSE /\ gotBlocked = FALSE
    /\ inread = FALSE /\ blocked = FALSE
    /\ ret = NoReturn
    /\ out = <<>>
    /\ keys = <<>>
    /\ searched = <<>>
    /\ sigmask = {} /\ sigint_oldmask = {} /\ entrymask = {}
    /\ oob = FALSE /\ crashed = FALSE
    /\ last = [op |-> "Init", arg |-> <<>>, n |-> 0, mode |-> "LS_NEW_LINE"]
    /\ ref = RefIdle
    /\ nav = NavIdle
    /\ navprev = <<>>

Next ==
    \/ \E line \in Lines : HistoryAdd(line, MaxHistory)
    \/ \E n \in 0..MaxCap : HistorySetMaxLen(n)
    \/ \E cb \in Callbacks : SetCompletionCallback(cb)
    \/ Call
    \/ \E ks \in Keys : KeyPress(ks, MaxLen)
    \/ Eof
    \/ \E signal \in BOOLEAN : Cancel(signal)

Spec == Init /\ [][Next]_vars

(* The buffer near its capacity: the host has added a line as long as *)
(* the capacity and set a callback that offers such a line, and the   *)
(* user has typed all but GrowSlack bytes of the first capacity.      *)
InitGrow ==
    LET n == LINENOISE_LINE_INIT_MAX_AND_GROW - GrowSlack
    IN /\ history = << Filled(LINENOISE_LINE_INIT_MAX_AND_GROW), <<>> >>
       /\ history_max_len = LINENOISE_DEFAULT_HISTORY_MAX_LEN
       /\ completionCallback = "cbFull"
       /\ nonblock \in BOOLEAN
       /\ pending = <<>>
       /\ initialized = TRUE
       /\ buf = Filled(n) /\ len = n /\ pos = n
       /\ buflen = LINENOISE_LINE_INIT_MAX_AND_GROW
       /\ state = "LS_READ"
       /\ history_index = 0
       /\ is_closed = FALSE /\ is_cancelled = FALSE /\ is_async = nonblock
       /\ needs_refresh = FALSE /\ is_displayed = TRUE
       /\ tempprompt = NULL
       /\ comp = NoCompletions
       /\ hist_search = NoSearch
       /\ read_back_char = <<>>
       /\ ansi = AnsiIdle
       /\ rawmode = TRUE /\ sigint_blocked = ~nonblock /\ gotBlocked = TRUE
       /\ inread = ~nonblock /\ blocked = ~nonblock
       /\ ret = IF nonblock
                THEN [r |-> "LR_ERROR", kind |-> "null", text |-> <<>>,
                      errno |-> "EAGAIN"]
                ELSE NoReturn
       /\ out = refreshSingleLine([tempprompt |-> NULL, buf |-> Filled(n),
                                   len |-> n, pos |-> n, out |-> <<>>]).out
       /\ keys = << [mode |-> "LS_READ", c |-> 97] >>
                 \o (IF nonblock
                     THEN << [mode |-> "LS_READ", c |-> RCS_ERROR] >>
                     ELSE <<>>)
       /\ searched = <<>>
       /\ sigmask = (IF nonblock THEN {} ELSE Signals)
       /\ sigint_oldmask = {} /\ entrymask = {}
       /\ oob = FALSE /\ crashed = FALSE
       /\ last = [op |-> "Key", arg |-> <<97>>, n |-> 2, mode |-> "LS_READ"]
       /\ ref = [ok |-> TRUE, buf |-> Filled(n), pos |-> n]
       /\ nav = NavIdle
       /\ navprev = <<>>

NextGrow ==
    \/ Call
    \/ \E ks \in GrowKeys :
          KeyPress(ks, LINENOISE_LINE_INIT_MAX_AND_GROW + GrowSlack)

SpecGrow == InitGrow /\ [][NextGrow]_vars

(* Letters and as many BACKSPACE at any cursor of a line near the    *)
(* capacity of the buffer.                                           *)
TripMove(ks) ==
    /\ ks = KEY_LEFT => pos + TripBack > len
    /\ KeyPress(ks, LINENOISE_LINE_INIT_MAX_AND_GROW + GrowSlack)

NextTrip ==
    \/ Call
    \/ \E ks \in TripMoves : TripMove(ks)
    \/ \E ks \in TripKeys :
          Arrive(ks, FALSE, LINENOISE_LINE_INIT_MAX_AND_GROW + GrowSlack)

SpecTrip == InitGrow /\ [][NextTrip]_vars

(* The search query near its capacity: the host has added a line one  *)
(* byte shorter than the capacity, and the user has pressed CTRL_R and *)
(* typed all but GrowSlack bytes of the capacity of the query, which   *)
(* the line contains.                                                  *)
InitQuery ==
    LET n == LINENOISE_LINE_INIT_MAX_AND_GROW - GrowSlack
        line == Filled(LINENOISE_LINE_INIT_MAX_AND_GROW - 1)
    IN /\ history = << line, <<>> >>
       /\ history_max_len = LINENOISE_DEFAULT_HISTORY_MAX_LEN
       /\ completionCallback = "NULL"
       /\ nonblock \in BOOLEAN
       /\ pending = <<>>
       /\ initialized = TRUE
       /\ buf = line /\ len = Len(line) /\ pos = Len(line)
       /\ buflen = LINENOISE_LINE_INIT_MAX_AND_GROW
       /\ state = "LS_HISTORY_SEARCH"
       /\ history_index = 1
       /\ is_closed = FALSE /\ is_cancelled = FALSE /\ is_async = nonblock
       /\ needs_refresh = FALSE /\ is_displayed = TRUE
       /\ tempprompt = Ptr(SearchPrompt(Filled(n)))
       /\ comp = NoCompletions
       /\ hist_search = [buf |-> Ptr(Filled(n)), len |-> n,
                         buflen |-> LINENOISE_LINE_INIT_MAX_AND_GROW,
                         current_index |-> 1, found |-> TRUE]
       /\ read_back_char = <<>>
       /\ ansi = AnsiIdle
       /\ rawmode = TRUE /\ sigint_blocked = ~nonblock /\ gotBlocked = TRUE
       /\ inread = ~nonblock /\ blocked = ~nonblock
       /\ ret = IF nonblock
                THEN [r |-> "LR_ERROR", kind |-> "null", text |-> <<>>,
                      errno |-> "EAGAIN"]
                ELSE NoReturn
       /\ out = refreshSingleLine([tempprompt |-> Ptr(SearchPrompt(Filled(n))),
                                   buf |-> line, len |-> Len(line),
                                   pos |-> Len(line), out |-> <<>>]).out
       /\ keys = << [mode |-> "LS_HISTORY_SEARCH", c |-> 97] >>
                 \o (IF nonblock
                     THEN << [mode |-> "LS_HISTORY_SEARCH", c |-> RCS_ERROR] >>
                     ELSE <<>>)
       /\ searched = <<>>
       /\ sigmask = (IF nonblock THEN {} ELSE Signals)
       /\ sigint_oldmask = {} /\ entrymask = {}
       /\ oob = FALSE /\ crashed = FALSE
       /\ last = [op |-> "Key", arg |-> <<97>>, n |-> 2,
                  mode |-> "LS_HISTORY_SEARCH"]
       /\ ref = RefIdle
       /\ nav = NavIdle
       /\ navprev = <<>>

NextQuery ==
    \E ks \in QueryKeys :
        KeyTyped(ks, MaxLen, LINENOISE_LINE_INIT_MAX_AND_GROW + GrowSlack)

SpecQuery == InitQuery /\ [][NextQuery]_vars

(* Reverse search through a short history. *)
NextSearch ==
    \/ \E line \in SearchLines : HistoryAdd(line, SearchHistory)
    \/ Call
    \/ \E ks \in SearchKeys : KeyTyped(ks, SearchLen, SearchQuery)
    \/ \E signal \in BOOLEAN : Cancel(signal)

SpecSearch == Init /\ [][NextSearch]_vars

(* A whole sequence arrives while the line is empty. *)
ArriveWhole(ks) ==
    /\ len = 0
    /\ Arrive(ks, FALSE, AnsiLen)

(* The listing of completeLine for up to ListMax candidates and      *)
(* columns; refreshSingleLine and refreshMultiLine for every prompt, *)
(* terminal, line and cursor up to ViewMax.                          *)
NextView ==
    \/ \E n \in 2..ListMax, cols \in 1..ListMax : ListCandidates(n, cols)
    \/ \E plen \in 0..ViewMax, cols \in 1..ViewMax, l \in 0..ViewMax :
        \E cur \in 0..l :
            \/ RefreshSingle(plen, cols, l, cur)
            \/ \E maxrows \in 0..ViewRows :
                   RefreshMulti(plen, cols, l, cur, maxrows)

SpecView == Init /\ [][NextView]_vars

(* Lines that end with the end of the input or with CTRL_D, alone   *)
(* or with more input behind it, and the calls after them.           *)
NextClosed ==
    \/ \E line \in ClosedLines : HistoryAdd(line, ClosedHistory)
    \/ Call
    \/ \E ks \in ClosedKeys : Arrive(ks, FALSE, ClosedLen)
    \/ Eof

SpecClosed == Init /\ [][NextClosed]_vars

(* The same keys, none of them ESC, given to a run with O_NONBLOCK,  *)
(* which returns and is called again between the keys, and to a run  *)
(* without it.                                                       *)
NextPair ==
    \/ \E line \in PairLines : HistoryAdd(line, PairHistory)
    \/ \E cb \in PairCallbacks : SetCompletionCallback(cb)
    \/ PairCall
    \/ \E ks \in PairKeys : PairKey(ks, PairLen, MaxQuery)

SpecPair == Init /\ [][NextPair]_vars

(* The bytes of escape sequences, in time. *)
NextAnsi ==
    \/ Call
    \/ \E ks \in AnsiBytes : Arrive(ks, FALSE, AnsiLen)
    \/ \E ks \in UnknownKeys : ArriveWhole(ks)

SpecAnsi == Init /\ [][NextAnsi]_vars

(* A letter and BACKSPACE in the reverse search. *)
NextRewind ==
    \/ \E line \in SearchLines : HistoryAdd(line, SearchHistory)
    \/ Call
    \/ \E ks \in RewindKeys : KeyTyped(ks, SearchLen, SearchQuery)
    \/ \E ks \in RewindPairs : Arrive(ks, FALSE, RewindLen)

SpecRewind == Init /\ [][NextRewind]_vars

(* The cancel flag, with keys, the end of the input and the timer of *)
(* ESC.                                                             *)
NextFlag ==
    \/ \E cb \in FlagCallbacks : SetCompletionCallback(cb)
    \/ Call
    \/ \E ks \in FlagKeys : KeyPress(ks, FlagLen)
    \/ Eof
    \/ \E signal \in BOOLEAN : Cancel(signal)
    \/ Expire

SpecFlag == Init /\ [][NextFlag]_vars

(* The signal mask of the host around the calls. *)
NextMask ==
    \/ \E mask \in HostMasks : SetMask(mask)
    \/ Call
    \/ \E ks \in MaskKeys : KeyPress(ks, MaskLen)
    \/ Eof
    \/ \E signal \in BOOLEAN : Cancel(signal)

SpecMask == Init /\ [][NextMask]_vars

(* The escape sequences and their timer. *)
NextEsc ==
    \/ \E line \in EscLines : HistoryAdd(line, EscHistory)
    \/ \E ks \in EscKeys : Arrive(ks, FALSE, EscLen)
    \/ \E ks \in LateKeys : Arrive(ks, TRUE, EscLen)
    \/ Expire

SpecEsc == Init /\ [][NextEsc]_vars

(* Plain editing: no history, no completion callback. *)
NextEdit ==
    \/ Call
    \/ \E ks \in EditKeys : KeyPress(ks, EditLen)

SpecEdit == Init /\ [][NextEdit]_vars

(* History navigation. *)
NextNav ==
    \/ \E line \in NavLines : HistoryAdd(line, NavHistory)
    \/ \E n \in 1..NavCap : HistorySetMaxLen(n)
    \/ Call
    \/ \E ks \in NavKeys : KeyPress(ks, NavLen)

SpecNav == Init /\ [][NextNav]_vars

(* Completion. *)
NextComp ==
    \/ \E cb \in CompCallbacks : SetCompletionCallback(cb)
    \/ Call
    \/ \E ks \in CompKeys : KeyPress(ks, CompLen)

SpecComp == Init /\ [][NextComp]_vars

(* The history store alone. *)
NextHist ==
    \/ \E line \in HistLines : HistoryAdd(line, HistLen)
    \/ \E n \in 0..HistCap : HistorySetMaxLen(n)

SpecHist == Init /\ [][NextHist]_vars

(* ------------------------------------------------------------------ *)
(* Properties                                                          *)
(* ------------------------------------------------------------------ *)

(* The line on the screen after the first k writes of the log o. *)
RECURSIVE ScreenAfter(_, _)
ScreenAfter(o, k) ==
    IF k = 0 THEN <<>>
    ELSE LET prev == ScreenAfter(o, k - 1)
         IN IF o[k].op = "refresh" THEN o[k].text
            ELSE IF o[k].op = "write" THEN prev \o o[k].text
            ELSE IF o[k].op = "crlf" THEN <<>>
            ELSE prev

(* The log o shows "^C" on the line and then moves to a new line. *)
EchoedCancel(o) ==
    \E i \in 1..Len(o) :
        /\ o[i].op = "crlf"
        /\ LastOccurrence(ScreenAfter(o, i - 1), <<94, 67>>) # -1

(* The session is in READ mode and the next read meets nothing older. *)
AtRead == state = "LS_READ" /\ Quiet

(* The call of the step has not ended: it waits, or (O_NONBLOCK) it   *)
(* has returned for more input.                                       *)
Continues ==
    \/ blocked /\ ret.kind = "none"
    \/ ~blocked /\ ret.r = "LR_ERROR" /\ ret.kind = "null" /\ ret.errno = "EAGAIN"

Cancelled == ~blocked /\ ret.r = "LR_CANCELLED" /\ ret.kind = "null"
             /\ ret.errno = "EINTR"

Closed == ~blocked /\ ret.r = "LR_CLOSED" /\ ret.kind = "null"
          /\ ret.errno = "0"

PressedKey(ks) == last.op = "Key" /\ last.arg = ks

(* C1: printable bytes and LEFT/RIGHT/HOME/END typed in READ mode and *)
(* then ENTER end the call with HAVE_TEXT and return the string of    *)
(* the reference editor (insert at the cursor, clamped moves).        *)
C1_PlainEditing ==
    (PressedKey(<<ENTER>>) /\ ref.ok) =>
        /\ ~blocked
        /\ ret.r = "LR_HAVE_TEXT"
        /\ ret.kind = "text"
        /\ ret.text = ref.buf

(* a b c LEFT LEFT x ENTER (or the like) has returned "axbc". *)
C1_Witness ==
    /\ PressedKey(<<ENTER>>) /\ ref.ok /\ ref.pos = 2
    /\ ret.kind = "text" /\ ret.text = <<97, 120, 98, 99>>

(* C2: after every key in any mode and at every return of linenoise() *)
(* 0 <= cursor_pos <= length.                                         *)
C2_CursorInRange == 0 <= pos /\ pos <= len

(* C3: after every key length < capacity and buffer[length] is the    *)
(* terminator; an insert at length = capacity - 1, a history entry or *)
(* a completion as long as the capacity grow the buffer, so that the  *)
(* terminator is never written at an index >= capacity.               *)
C3_TerminatorInside ==
    initialized => (len < buflen /\ Len(buf) = len /\ ~oob)

(* C4: in READ mode CTRL_C on an empty buffer ends the call with      *)
(* Cancelled; on a non-empty buffer it echoes ^C, prints CRLF,        *)
(* empties the buffer (length 0, cursor 0) and the same call keeps    *)
(* editing in READ mode.                                              *)
C4_CtrlC ==
    [][ (PressedKey(<<CTRL_C>>)' /\ AtRead) =>
          IF len = 0 THEN Cancelled'
          ELSE /\ EchoedCancel(out')
               /\ len' = 0 /\ pos' = 0 /\ buf' = <<>>
               /\ state' = "LS_READ"
               /\ Continues' ]_vars

(* CTRL_C on a non-empty line in READ mode: ^C echoed, the call waits *)
(* with an empty line.                                                *)
C4_Witness ==
    /\ PressedKey(<<CTRL_C>>) /\ last.mode = "LS_READ"
    /\ EchoedCancel(out)
    /\ blocked /\ state = "LS_READ" /\ len = 0 /\ pos = 0

(* The step reads the cancel flag (readChar clears it). *)
CancelSeen ==
    /\ is_cancelled \/ last'.op = "Cancel"
    /\ ~is_cancelled'

C6_CtrlD ==
    [][ (PressedKey(<<CTRL_D>>)' /\ AtRead) =>
          IF len = 0 THEN Closed'
          ELSE /\ Continues' /\ state' = "LS_READ"
               /\ pos' = pos
               /\ len' = Len(buf')
               /\ buf' = IF pos < len
                         THEN SubSeq(buf, 1, pos) \o SubSeq(buf, pos + 2, len)
                         ELSE buf ]_vars

(* CTRL_D has deleted a byte in front of the cursor. *)
C6_Witness ==
    /\ PressedKey(<<CTRL_D>>) /\ last.mode = "LS_READ"
    /\ blocked /\ state = "LS_READ" /\ len >= 1 /\ pos = 0
    /\ \E i \in 1..Len(out) : out[i].op = "refresh"

(* C7: at end of file (read() returns 0) in any mode the call returns *)
(* the buffer as a line when it is non-empty and Closed when empty.   *)
C7_EndOfFile ==
    [][ (last'.op = "Eof" /\ Quiet) =>
          IF Line # <<>>
          THEN ~blocked' /\ ret'.kind = "text" /\ ret'.text = Line
          ELSE Closed' ]_vars

(* End of file in reverse search has returned the line shown. *)
C7_Witness ==
    /\ last.op = "Eof" /\ last.mode = "LS_HISTORY_SEARCH"
    /\ ret.kind = "text" /\ ret.text # <<>>

(* C8: with history h1..hn and an empty line, k presses of UP show    *)
(* h(n-k+1), UP at the oldest entry changes nothing, DOWN moves back  *)
(* toward the newest, and ENTER returns the entry shown.              *)
C8_HistoryWalk ==
    nav.ok =>
        IF PressedKey(<<ENTER>>)
        THEN ret.kind = "text" /\ ret.text = NavShown(nav)
        ELSE state = "LS_READ" => Line = NavShown(nav)

(* C9: moving from index i to a neighbouring entry and back shows the *)
(* line B that was being edited at i, with the cursor at its end.     *)
C9_NavigationKeepsEdits ==
    [][ ( /\ last'.op = "Key" /\ last'.arg \in {KEY_UP, KEY_DOWN}
          /\ AtRead /\ navprev # <<>>
          /\ history_index # navprev[1].idx
          /\ history_index' = navprev[1].idx ) =>
          /\ Line' = navprev[1].B
          /\ pos' = len' ]_vars

(* "x" typed on the new line, UP to the entry "1", DOWN: "x" is shown *)
(* again with the cursor behind it.                                   *)
C9_Witness ==
    /\ last.op = "Key" /\ last.arg = KEY_DOWN /\ last.mode = "LS_READ"
    /\ navprev = << [idx |-> 1, B |-> <<49>>] >>
    /\ history_index = 0 /\ Line = <<120>> /\ pos = 1
    /\ blocked

(* C10: the history never holds more than history_max_len entries,    *)
(* and an add to a full history removes the oldest entry, keeps the   *)
(* others in order and appends the line as the newest.                *)
C10_HistoryCap ==
    /\ [](Len(history) <= history_max_len)
    /\ [][ (last'.op = "HistoryAdd" /\ Len(history) = history_max_len) =>
             history' = Tail(history) \o << last'.arg >> ]_vars

(* A line was added to a full history of three entries. *)
C10_Witness ==
    /\ last.op = "HistoryAdd" /\ last.n = history_max_len
    /\ Len(history) = 3 /\ history[3] = last.arg /\ history[1] # history[2]

(* The switch of READ mode alone, applied to the key c in this state. *)
ReadDispatch(c) == EditKey(Machine(<<>>, FALSE, FALSE), c).m

(* C11: in READ mode TAB with a completion callback set is pushed back *)
(* and the mode becomes COMPLETION with the buffer unchanged; TAB with *)
(* no callback set inserts a TAB byte at the cursor (length and cursor *)
(* each grow by one).                                                  *)
C11_Tab ==
    [][ (PressedKey(<<TAB>>)' /\ AtRead) =>
          IF completionCallback # "NULL"
          THEN /\ ReadDispatch(TAB).state = "LS_COMPLETION"
               /\ ReadDispatch(TAB).read_back_char = <<TAB>>
               /\ ReadDispatch(TAB).buf = buf
               /\ ReadDispatch(TAB).len = len
               /\ ReadDispatch(TAB).pos = pos
               /\ Len(keys') >= 2
               /\ keys'[1] = [mode |-> "LS_READ", c |-> TAB]
               /\ keys'[2] = [mode |-> "LS_COMPLETION", c |-> TAB]
          ELSE /\ buf' = SubSeq(buf, 1, pos) \o <<TAB>> \o SubSeq(buf, pos + 1, len)
               /\ len' = len + 1
               /\ pos' = pos + 1 ]_vars

(* TAB is read in this state and asks the completion callback. *)
TabAsks ==
    /\ Quiet /\ completionCallback # "NULL"
    /\ \/ state = "LS_READ"
       \/ state = "LS_COMPLETION" /\ (~comp.is_initialized \/ Len(comp.cvec) = 1)

(* What the callback offers for the line and the cursor of this state. *)
Offered == CompletionsOf(completionCallback, buf, pos)

(* C12 as stated: with exactly one candidate TAB replaces the whole    *)
(* buffer with the replacement text, puts the cursor at min(candidate  *)
(* cursor, new length), and the mode is READ again once that TAB has   *)
(* been processed.                                                     *)
C12_SingleBackToRead ==
    [][ (PressedKey(<<TAB>>)' /\ TabAsks /\ Len(Offered) = 1) =>
          /\ buf' = Offered[1].text
          /\ len' = Len(Offered[1].text)
          /\ pos' = MIN(Len(Offered[1].text), Offered[1].pos)
          /\ state' = "LS_READ" ]_vars

(* C12 as the code has it: the buffer and the cursor as stated, but    *)
(* the mode stays COMPLETION with the one candidate kept; the next key *)
(* other than TAB frees the candidates and goes to READ mode, which    *)
(* handles it.                                                         *)
C12_SingleStaysInCompletion ==
    /\ [][ (PressedKey(<<TAB>>)' /\ TabAsks /\ Len(Offered) = 1) =>
             /\ buf' = Offered[1].text
             /\ len' = Len(Offered[1].text)
             /\ pos' = MIN(Len(Offered[1].text), Offered[1].pos)
             /\ state' = "LS_COMPLETION"
             /\ comp'.is_initialized /\ comp'.cvec = Offered
             /\ Continues' ]_vars
    /\ [][ (last'.op = "Key" /\ last'.arg # <<TAB>> /\ Len(last'.arg) = 1
            /\ state = "LS_COMPLETION" /\ Quiet) =>
             /\ Len(keys') >= 2
             /\ keys'[1] = [mode |-> "LS_COMPLETION", c |-> last'.arg[1]]
             /\ keys'[2] = [mode |-> "LS_READ", c |-> last'.arg[1]]
             /\ comp' = NoCompletions
             /\ state' # "LS_COMPLETION" ]_vars

(* TAB has replaced "h" by the one candidate "ab", whose cursor 5 is *)
(* cut to 2, and the mode is COMPLETION.                             *)
C12_Witness ==
    /\ PressedKey(<<TAB>>) /\ completionCallback = "cbOne"
    /\ last.mode = "LS_READ"
    /\ buf = <<97, 98>> /\ len = 2 /\ pos = 2
    /\ state = "LS_COMPLETION" /\ Len(comp.cvec) = 1

(* The line has just been replaced by the one candidate offered. *)
SingleCompleted ==
    /\ state = "LS_COMPLETION" /\ Quiet
    /\ Len(comp.cvec) = 1
    /\ len = Len(buf) /\ buf = comp.cvec[1].text

(* C13: with a single candidate whose replacement text does not end   *)
(* in '/', completing and accepting with ENTER returns the replacement *)
(* followed by one space ("h e TAB ENTER" with ("hello", "hello", 5)  *)
(* returns "hello ").                                                 *)
C13_TrailingSpace ==
    [][ (PressedKey(<<ENTER>>)' /\ SingleCompleted
         /\ buf # <<>> /\ buf[Len(buf)] # 47) =>
          /\ ~blocked'
          /\ ret'.kind = "text"
          /\ ret'.text = buf \o <<32>> ]_vars

(* The longest common prefix of two strings and of the replacement *)
(* texts of a list of candidates.                                  *)
RECURSIVE CommonPrefix(_, _)
CommonPrefix(a, b) ==
    IF a = <<>> \/ b = <<>> \/ Head(a) # Head(b) THEN <<>>
    ELSE <<Head(a)>> \o CommonPrefix(Tail(a), Tail(b))

RECURSIVE LongestCommonPrefix(_)
LongestCommonPrefix(cvec) ==
    IF Len(cvec) = 1 THEN cvec[1].text
    ELSE CommonPrefix(cvec[1].text, LongestCommonPrefix(Tail(cvec)))

IsCell(e) == e.op = "cell"

(* The log o shows the suggestions of cvec, sorted, on a fresh row. *)
ListingShown(o, cvec) ==
    /\ \E i \in 1..Len(o) :
          /\ o[i].op = "crlf"
          /\ \A j \in 1..(i - 1) : o[j].op # "cell"
    /\ LET cells == SelectSeq(o, IsCell)
           sorted == SortBySuggestion(cvec)
       IN /\ Len(cells) = Len(sorted)
          /\ \A k \in 1..Len(cells) : cells[k].text = sorted[k].suggestion

(* C14: with two or more candidates the first TAB inserts the longest *)
(* common prefix of the replacement texts at the cursor and prints    *)
(* the sorted listing on a fresh row before the next key is read.     *)
C14_CommonPrefix ==
    [][ (PressedKey(<<TAB>>)' /\ TabAsks /\ len = Len(buf)
         /\ Len(Offered) >= 2) =>
          /\ buf' = SubSeq(buf, 1, pos) \o LongestCommonPrefix(Offered)
                    \o SubSeq(buf, pos + 1, len)
          /\ pos' = pos + Len(LongestCommonPrefix(Offered))
          /\ ListingShown(out', Offered) ]_vars

(* The place of the replacement text b in the list cvec, 0 for none. *)
PlaceOf(b, cvec) ==
    IF \E k \in 1..Len(cvec) : cvec[k].text = b
    THEN CHOOSE k \in 1..Len(cvec) :
            /\ cvec[k].text = b
            /\ \A j \in 1..(k - 1) : cvec[j].text # b
    ELSE 0

(* C15: in COMPLETION mode with two or more candidates each TAB after *)
(* the first replaces the buffer with the next candidate in order,    *)
(* cycling through all of them, and the callback is not asked again   *)
(* (the candidates stay the ones of the first TAB).                   *)
C15_Rotation ==
    [][ (PressedKey(<<TAB>>)' /\ state = "LS_COMPLETION" /\ Quiet
         /\ comp.is_initialized /\ Len(comp.cvec) >= 2) =>
          /\ buf' = comp.cvec[(PlaceOf(buf, comp.cvec) % Len(comp.cvec)) + 1].text
          /\ len' = Len(buf')
          /\ state' = "LS_COMPLETION"
          /\ comp'.cvec = SortBySuggestion(comp.cvec) ]_vars

(* ------------------------------------------------------------------ *)
(* Reverse search                                                      *)
(* ------------------------------------------------------------------ *)
(* The history entry at index i, counted from the newest entry (0). *)
EntryAt(i) == history[Len(history) - i]

(* The cursor positions just after an occurrence of query in entry. *)
EndsOfQuery(entry, query) ==
    { e \in Len(query)..Len(entry) :
          SubSeq(entry, e - Len(query) + 1, e) = query }

(* The indexes from current_index toward the oldest entry whose entry *)
(* contains query.                                                    *)
OlderWith(query) ==
    { i \in hist_search.current_index..(Len(history) - 1) :
          EndsOfQuery(EntryAt(i), query) # {} }

Least(S) == CHOOSE x \in S : \A y \in S : x <= y
Greatest(S) == CHOOSE x \in S : \A y \in S : y <= x

(* This step has given the printable key k to the reverse search. *)
SearchTyped(k) ==
    /\ state = "LS_HISTORY_SEARCH"
    /\ last'.op = "Key" /\ last'.arg = <<k>> /\ Printable(<<k>>)
    /\ keys' # <<>> /\ keys'[1] = [mode |-> "LS_HISTORY_SEARCH", c |-> k]

(* What the search shows for the query: the newest entry from          *)
(* current_index toward the oldest that contains it, the cursor after  *)
(* its rightmost occurrence, the prompt of the query; the buffer kept  *)
(* and found false when no entry contains it.                          *)
SearchShows(query) ==
    /\ ~crashed'
    /\ Deref(hist_search'.buf) = query
    /\ IF OlderWith(query) # {}
       THEN /\ hist_search'.found
            /\ buf' = EntryAt(Least(OlderWith(query)))
            /\ len' = Len(buf')
            /\ pos' = Greatest(EndsOfQuery(buf', query))
            /\ tempprompt' = Ptr(SearchPrompt(query))
       ELSE /\ ~hist_search'.found
            /\ buf' = buf /\ len' = len

(* C16: in reverse search, after a printable key is appended to the   *)
(* query, the engine shows the newest history entry at an index >=    *)
(* current_index that contains the query, with the cursor just after  *)
(* the rightmost occurrence of the query in it and the prompt         *)
(* (reverse-i-search`<query>'): ; when no entry contains the query    *)
(* the buffer is unchanged and found is false.                        *)
C16_SearchKey ==
    [][\A k \in 32..126 :
          SearchTyped(k) => SearchShows(Append(Deref(hist_search.buf), k))]_vars

(* This step has given CTRL_C or the cancel request to the reverse search. *)
SearchCancelled ==
    /\ state = "LS_HISTORY_SEARCH" /\ hist_search.buf # NULL
    /\ keys' # <<>>
    /\ keys'[1].mode = "LS_HISTORY_SEARCH"
    /\ keys'[1].c \in {CTRL_C, RCS_CANCELLED}

(* C17: CTRL_C or an external cancel during reverse search frees the  *)
(* search state, clears the temporary prompt, returns the mode to     *)
(* READ and leaves the buffer (content and length) as it was when     *)
(* CTRL_R began the search.                                           *)
C17_SearchCancel ==
    [][SearchCancelled =>
          /\ hist_search' = NoSearch
          /\ tempprompt' = NULL
          /\ state' = "LS_READ"
          /\ len' = Len(searched)
          /\ Prefix(buf', len') = searched]_vars

(* The keys that are no text and that the reverse search does not     *)
(* answer itself: the control bytes but CTRL_C, CTRL_H and CTRL_R, and *)
(* the keys of the escape sequences.                                  *)
LeavingKeys ==
    ((1..31) \ {CTRL_C, CTRL_H, CTRL_R})
    \cup {RCS_ANSI_CURSOR_LEFT, RCS_ANSI_CURSOR_RIGHT, RCS_ANSI_CURSOR_UP,
          RCS_ANSI_CURSOR_DOWN, RCS_ANSI_DELETE, RCS_ANSI_HOME, RCS_ANSI_END}

(* The keys readChar has delivered in the step, without the reads that *)
(* found no byte (EAGAIN).                                             *)
KeyEvents(ks) == SelectSeq(ks, LAMBDA e : e.c # RCS_ERROR)

(* This step has given the key k to the reverse search, with no cancel *)
(* request pending.                                                    *)
SearchLeftBy(k) ==
    /\ state = "LS_HISTORY_SEARCH" /\ hist_search.buf # NULL /\ Quiet
    /\ last'.op = "Key"
    /\ keys' # <<>> /\ keys'[1] = [mode |-> "LS_HISTORY_SEARCH", c |-> k]

(* What READ mode does with the bytes ks of a key when it has the      *)
(* buffer and the history index of now and no search is under way.     *)
NormalStep(ks) ==
    Enter([Machine(ks, FALSE, FALSE) EXCEPT !.state = "LS_READ",
                                            !.hist_search = NoSearch,
                                            !.tempprompt = NULL])

(* The step has ended as the machine h. *)
SameOutcome(h) ==
    /\ buf' = h.buf /\ len' = h.len /\ pos' = h.pos
    /\ history' = h.history /\ history_index' = h.history_index
    /\ state' = h.state /\ ret' = h.ret
    /\ hist_search' = h.hist_search /\ tempprompt' = h.tempprompt
    /\ read_back_char' = h.read_back_char

(* C18: in reverse search ENTER or any key that is no text, other than *)
(* CTRL_R, CTRL_C, BACKSPACE and CTRL_H, ends the search with the      *)
(* displayed entry kept as the buffer and history_index kept, and the  *)
(* same key is then processed exactly once by READ mode: ENTER returns *)
(* the entry shown.                                                    *)
C18_SearchLeave ==
    [][\A k \in LeavingKeys :
          SearchLeftBy(k) =>
             /\ KeyEvents(keys') = << [mode |-> "LS_HISTORY_SEARCH", c |-> k],
                                      [mode |-> "LS_READ", c |-> k] >>
             /\ SameOutcome(NormalStep(last'.arg))
             /\ k = ENTER => (ret'.kind = "text" /\ ret'.text = Prefix(buf, len))
      ]_vars

(* ENTER has ended a search that showed "aba" and has returned it. *)
C18_Witness ==
    /\ PressedKey(<<ENTER>>) /\ last.mode = "LS_HISTORY_SEARCH"
    /\ keys = << [mode |-> "LS_HISTORY_SEARCH", c |-> ENTER],
                 [mode |-> "LS_READ", c |-> ENTER] >>
    /\ ret.kind = "text" /\ ret.text = <<97, 98, 97>>

(* ------------------------------------------------------------------ *)
(* Escape sequences and their timer                                    *)
(* ------------------------------------------------------------------ *)
(* The results of readChar in the step, one after the other. *)
Codes(ks) == [i \in 1..Len(KeyEvents(ks)) |-> KeyEvents(ks)[i].c]

(* An ESC has been read and nothing after it: its timer runs. *)
EscapeOpen == ansi.timer_is_active /\ ansi.escape = <<>> /\ Quiet

(* The timer of the last ESC has run out with no byte after it, and  *)
(* the step has noticed it.                                          *)
EscapeTimedOut ==
    /\ last.op \in {"Expire", "Late"} /\ last.arg = <<>>
    /\ Codes(keys) = <<ESC>>
    /\ Quiet

(* C19: when an ESC is read and more than 50 ms pass before '[' 'A'   *)
(* arrive, the decoder gives exactly two keys in this order: ESC,     *)
(* then CURSOR_UP.  The bytes '[' 'A' are read when the timer has     *)
(* run out unnoticed, or after the wait has noticed it and has given  *)
(* ESC.                                                               *)
C19_LateEscape ==
    /\ [][ (EscapeOpen /\ last'.op = "Late" /\ last'.arg = <<91, 65>>) =>
              Codes(keys') = << ESC, RCS_ANSI_CURSOR_UP >> ]_vars
    /\ [][ (EscapeTimedOut /\ last'.op = "Key" /\ last'.arg = <<91, 65>>) =>
              Codes(keys') = << RCS_ANSI_CURSOR_UP >> ]_vars

(* No escape sequence is under way and nothing waits to be read again. *)
EscapeIdle ==
    /\ ~ansi.timer_is_active /\ ansi.escape = <<>> /\ read_back_char = <<>>
    /\ Quiet

(* READ mode has moved to the entry before the one shown. *)
HistoryPrevious ==
    /\ history_index' = MIN(history_index + 1, Len(history) - 1)
    /\ Len(history') = Len(history)
    /\ Len(history) > 1 =>
          Prefix(buf', len') = history'[Len(history') - history_index']

(* The step has given CURSOR_UP and nothing else; no sequence and no  *)
(* timer is left, and READ mode has moved to the previous entry.      *)
UpGiven ==
    /\ Codes(keys') = << RCS_ANSI_CURSOR_UP >>
    /\ ~ansi'.timer_is_active /\ ansi'.escape = <<>>
    /\ read_back_char' = <<>>
    /\ state = "LS_READ" => HistoryPrevious

(* C20: when the byte after an ESC arrives before its timer runs out, *)
(* the timer is cancelled and ESC '[' 'A' gives exactly one key,      *)
(* CURSOR_UP (the previous history entry in READ mode): no ESC, no    *)
(* '[' and no 'A' is given, whether the bytes are read one at a time  *)
(* or together.                                                       *)
C20_PromptEscape ==
    /\ [][ (EscapeOpen /\ last'.op = "Key" /\ last'.arg = <<91>>) =>
              /\ Codes(keys') = <<>>
              /\ ~ansi'.timer_is_active /\ ansi'.escape = <<ESC, 91>>
              /\ UNCHANGED << buf, len, pos, history, history_index >> ]_vars
    /\ [][ (~ansi.timer_is_active /\ ansi.escape = <<ESC, 91>> /\ Quiet
            /\ last'.op = "Key" /\ last'.arg = <<65>>) => UpGiven ]_vars
    /\ [][ (EscapeOpen /\ last'.op = "Key" /\ last'.arg = <<91, 65>>) =>
              UpGiven ]_vars
    /\ [][ (EscapeIdle /\ last'.op = "Key" /\ last'.arg = KEY_UP) =>
              UpGiven ]_vars

(* ESC, '[' and 'A' have come one by one in time, and READ mode shows *)
(* the line "1" of the history.                                       *)
C20_Witness ==
    /\ PressedKey(<<65>>) /\ last.mode = "LS_READ"
    /\ Codes(keys) = << RCS_ANSI_CURSOR_UP >>
    /\ history_index = 1 /\ Line = <<49>>
    /\ ~ansi.timer_is_active /\ ansi.escape = <<>>

(* ------------------------------------------------------------------ *)
(* Signal mask and raw mode                                            *)
(* ------------------------------------------------------------------ *)
(* linenoise() has returned to the host in the last step. *)
HasReturned == ret.r # "none"

(* C21: at every return of linenoise() (text, Closed, Cancelled, an   *)
(* error or the return for more input) the signal mask of the process *)
(* is the mask at the call; SIGINT, SIGALRM and SIGWINCH are blocked   *)
(* while a call runs, and no block is left without its restore.       *)
C21_MaskRestored ==
    /\ HasReturned => (sigmask = entrymask /\ ~sigint_blocked)
    /\ blocked => (Signals \subseteq sigmask /\ sigint_blocked
                   /\ sigint_oldmask = entrymask)

(* A call that has waited with the three signals blocked has returned *)
(* a line to a host that blocks SIGALRM and SIGUSR1 itself.           *)
C21_Witness ==
    /\ PressedKey(<<ENTER>>) /\ ~nonblock
    /\ ret.kind = "text" /\ ret.text = <<97>>
    /\ entrymask = {"SIGALRM", "SIGUSR1"}
    /\ sigmask = {"SIGALRM", "SIGUSR1"}

(* C22: whenever a call of linenoise() has ended with text, Closed,   *)
(* Cancelled or an error that is not the return for more input, with  *)
(* or without O_NONBLOCK, the terminal is no longer in raw mode; and  *)
(* the terminal is in raw mode again once the completion callback has *)
(* returned.                                                          *)
C22_RawRestored ==
    /\ (HasReturned /\ ~Continues) => ~rawmode
    /\ (state = "LS_COMPLETION" /\ comp.is_initialized /\ ~HasReturned)
          => rawmode

(* ------------------------------------------------------------------ *)
(* The cancel flag                                                     *)
(* ------------------------------------------------------------------ *)
(* The flag is set when the step begins, or the step is the signal    *)
(* handler that sets it and interrupts the wait; the step gives keys. *)
FlagMet ==
    /\ is_cancelled \/ (last'.op = "Cancel" /\ blocked)
    /\ last'.op \in {"Call", "Key", "Eof", "Expire", "Cancel"}
    /\ keys' # <<>>

(* The keys of the log ks, each one once: a key that COMPLETION or the *)
(* reverse search has pushed back is read again by READ mode, and is  *)
(* the same key.                                                      *)
Again(es, i) ==
    /\ i > 1
    /\ es[i].c = es[i - 1].c
    /\ es[i].mode = "LS_READ"
    /\ es[i - 1].mode \in {"LS_COMPLETION", "LS_HISTORY_SEARCH"}

Once(es) == { i \in 1..Len(es) : ~Again(es, i) }

(* How many CANCELLED the step has given. *)
CancelledGiven(es) == Cardinality({ i \in Once(es) : es[i].c = RCS_CANCELLED })

(* C23 as stated: once the cancel flag is set, the next key the       *)
(* engine gives is CANCELLED; the flag is cleared by that, and one    *)
(* set of the flag gives exactly one CANCELLED.                       *)
C23_CancelNext ==
    [][FlagMet => /\ KeyEvents(keys')[1].c = RCS_CANCELLED
                  /\ CancelledGiven(KeyEvents(keys')) = 1
                  /\ ~is_cancelled']_vars

(* C23 as the code has it: the flag is looked at when readChar begins *)
(* and after every read; CANCELLED is the next key, but for an ESC    *)
(* whose timer has run out in the same wait, which is given before    *)
(* it (to every mode it passes through); the flag is cleared, and one *)
(* set of the flag gives exactly one CANCELLED.                       *)
C23_CancelAfterEscape ==
    [][FlagMet =>
          /\ \E i \in 1..Len(KeyEvents(keys')) :
                /\ KeyEvents(keys')[i].c = RCS_CANCELLED
                /\ \A j \in 1..(i - 1) : KeyEvents(keys')[j].c = ESC
                /\ i > 1 => (ansi.timer_is_active /\ last'.op = "Expire")
          /\ CancelledGiven(KeyEvents(keys')) = 1
          /\ ~is_cancelled']_vars

(* The flag was set while a call waited after an ESC, the timer has   *)
(* run out, and the step has given ESC and then CANCELLED.            *)
C23_Witness ==
    /\ last.op = "Expire"
    /\ Codes(keys) = << ESC, RCS_CANCELLED >>
    /\ ~is_cancelled

(* ------------------------------------------------------------------ *)
(* Reads that would block                                              *)
(* ------------------------------------------------------------------ *)
(* linenoise() is called in the middle of a line with O_NONBLOCK set, *)
(* no byte to read and no cancel request.                             *)
WouldBlock ==
    /\ nonblock /\ ~is_closed /\ Quiet
    /\ state # "LS_NEW_LINE"
    /\ last'.op = "Call"

(* The step has ended on a read that found no byte (EAGAIN). *)
EndsOnEmptyRead == keys # <<>> /\ keys[Len(keys)].c = RCS_ERROR

TrippedBy(n) == AtRead /\ last'.op = "Key" /\ last'.arg = Trip(n)

(* The line and the cursor are again what they were. *)
LineRestored == Prefix(buf', len') = Prefix(buf, len) /\ len' = len /\ pos' = pos

(* C25: n printable bytes inserted at any cursor and then n times     *)
(* BACKSPACE leave the content, the length and the cursor of the      *)
(* buffer as before the inserts, also when the inserts pass the size  *)
(* at which the buffer grows.                                         *)
C25_InsertBackspace ==
    [][\A n \in 1..TripMax :
          TrippedBy(n) => (LineRestored /\ state' = "LS_READ" /\ ~crashed')]_vars

(* ------------------------------------------------------------------ *)
(* The entry of the session in the history                             *)
(* ------------------------------------------------------------------ *)
InSession(s) == s \in {"LS_READ", "LS_COMPLETION", "LS_HISTORY_SEARCH"}

(* The step is one of linenoise(), and the process has gone on. *)
EngineStep == last'.op \in {"Call", "Key", "Eof", "Cancel"} /\ ~crashed'

(* The history without its newest entry. *)
Older(h) == SubSeq(h, 1, Len(h) - 1)

(* C26: in the modes READ, COMPLETION and REVERSE_SEARCH the newest   *)
(* entry of the history is the one of the session; it is added once   *)
(* when READ is entered from NEW_LINE and removed once when the line  *)
(* ends, so that a line that has ended leaves NEW_LINE, no entry of   *)
(* the session, and every entry the host has added.                   *)
C26_Sentinel ==
    [][EngineStep =>
          /\ (state = "LS_NEW_LINE" /\ InSession(state')) =>
                (history' # <<>> /\ Older(history') = history)
          /\ (state = "LS_NEW_LINE" /\ state' = "LS_NEW_LINE") =>
                history' = history
          /\ (InSession(state) /\ state' = "LS_NEW_LINE") =>
                history' = Older(history)
          /\ (InSession(state) /\ InSession(state')) =>
                Len(history') = Len(history)
          /\ (ret'.kind = "text" \/ Cancelled' \/ Closed') =>
                state' = "LS_NEW_LINE"]_vars

(* ------------------------------------------------------------------ *)
(* Keys that leave COMPLETION                                          *)
(* ------------------------------------------------------------------ *)
(* The step has given COMPLETION mode the key k, and no other key has *)
(* come with it.                                                      *)
CompletionLeftBy(k) ==
    /\ state = "LS_COMPLETION" /\ EngineStep
    /\ last'.op \in {"Key", "Eof"} => Quiet
    /\ keys' # <<>> /\ keys'[1] = [mode |-> "LS_COMPLETION", c |-> k]

(* The machine that the step has run. *)
StepMachine ==
    IF last'.op = "Eof" THEN Machine(pending, TRUE, FALSE)
    ELSE IF last'.op = "Cancel"
    THEN [Machine(pending, FALSE, TRUE) EXCEPT !.is_cancelled = TRUE]
    ELSE Machine(last'.arg, FALSE, FALSE)

(* What READ mode does with the input of the step when it has the     *)
(* buffer of now and no candidates are kept.                          *)
ReadStep == Enter([StepMachine EXCEPT !.state = "LS_READ",
                                      !.comp = NoCompletions])

(* How many keys of the log es the mode s has got. *)
GivenTo(s, es) == Cardinality({ i \in 1..Len(es) : es[i].mode = s })

(* The keys that linenoiseCompletion can get other than TAB. *)
CompletionLeaving ==
    ((1..127) \ {TAB})
    \cup {RCS_CLOSED, RCS_CANCELLED, RCS_ANSI_CURSOR_LEFT,
          RCS_ANSI_CURSOR_RIGHT, RCS_ANSI_CURSOR_UP, RCS_ANSI_CURSOR_DOWN,
          RCS_ANSI_DELETE, RCS_ANSI_HOME, RCS_ANSI_END}

(* C27: in COMPLETION mode every key other than TAB (text, control,   *)
(* editing key, CLOSED, CANCELLED) frees the candidates, sets the     *)
(* mode to READ and is then handled once by READ mode as if typed     *)
(* there; no candidates are kept in any mode other than COMPLETION.   *)
C27_CompletionLeave ==
    /\ [](state # "LS_COMPLETION" => comp = NoCompletions)
    /\ [][\A k \in CompletionLeaving :
             CompletionLeftBy(k) =>
                /\ Len(KeyEvents(keys')) >= 2
                /\ KeyEvents(keys')[2] = [mode |-> "LS_READ", c |-> k]
                /\ GivenTo("LS_READ", KeyEvents(keys')) = 1
                /\ comp' = NoCompletions
                /\ state' # "LS_COMPLETION"
                /\ SameOutcome(ReadStep)]_vars

(* The letter "a" typed in COMPLETION mode has been put into the line *)
(* by READ mode.                                                      *)
C27_Witness ==
    /\ PressedKey(<<97>>) /\ last.mode = "LS_COMPLETION"
    /\ keys = << [mode |-> "LS_COMPLETION", c |-> 97],
                 [mode |-> "LS_READ", c |-> 97] >>
    /\ state = "LS_READ" /\ comp = NoCompletions
    /\ Line # <<>> /\ ~nonblock

(* ------------------------------------------------------------------ *)
(* BACKSPACE in the reverse search                                     *)
(* ------------------------------------------------------------------ *)
(* The search shows a match of a query that is not empty, and the     *)
(* step has read the printable key k and then BACKSPACE.              *)
Rewound(k) ==
    /\ state = "LS_HISTORY_SEARCH" /\ hist_search.buf # NULL /\ Quiet
    /\ hist_search.len > 0 /\ hist_search.found
    /\ last'.op = "Key" /\ last'.arg = <<k, BACKSPACE>>
    /\ KeyEvents(keys') = << [mode |-> "LS_HISTORY_SEARCH", c |-> k],
                             [mode |-> "LS_HISTORY_SEARCH", c |-> BACKSPACE] >>

(* C28: in reverse search a printable key appended to a query that is *)
(* not empty and has a match, followed by BACKSPACE, leaves the       *)
(* query, the found flag, the entry shown and the cursor as they were *)
(* before the key, whether the longer query had a match or not.       *)
C28_SearchRewind ==
    [][\A k \in {97, 98} :
          Rewound(k) =>
             /\ state' = "LS_HISTORY_SEARCH"
             /\ Deref(hist_search'.buf) = Deref(hist_search.buf)
             /\ hist_search'.found = hist_search.found
             /\ Prefix(buf', len') = Prefix(buf, len)
             /\ history_index' = history_index
             /\ pos' = pos]_vars

(* ------------------------------------------------------------------ *)
(* The escape decoder                                                  *)
(* ------------------------------------------------------------------ *)
(* The decoder has taken the byte c in. *)
Taken(la, c) == ansiAddCharacter(la, c).la.escape = Append(la.escape, c)

(* The decoder has taken c as a parameter byte, an intermediate byte, *)
(* the final byte.                                                    *)
AsParameter(la, c) ==
    /\ Taken(la, c)
    /\ ansiAddCharacter(la, c).la.state = "AES_CSI_PARAMETER"
    /\ ansiAddCharacter(la, c).la.parameter = Append(la.parameter, c)

AsIntermediate(la, c) ==
    /\ Taken(la, c)
    /\ ansiAddCharacter(la, c).la.state = "AES_CSI_INTERMEDIATE"
    /\ ansiAddCharacter(la, c).la.intermediate = Append(la.intermediate, c)

AsFinal(la, c) ==
    /\ Taken(la, c)
    /\ ansiAddCharacter(la, c).la.state = "AES_FINAL"
    /\ ansiAddCharacter(la, c).la.final = c

(* C29: the decoder follows the state table for every byte: in        *)
(* CSI_PARAM 0x30..0x3F are parameter bytes and the state stays,      *)
(* 0x20..0x2F go to CSI_INTER, 0x40..0x7E are finals; in CSI_INTER    *)
(* 0x20..0x2F are taken and 0x40..0x7E are finals.                    *)
C29_StateTable ==
    /\ ansi.state = "AES_CSI_PARAMETER" =>
          /\ \A c \in 48..63 : AsParameter(ansi, c)
          /\ \A c \in 32..47 : AsIntermediate(ansi, c)
          /\ \A c \in 64..126 : AsFinal(ansi, c)
    /\ ansi.state = "AES_CSI_INTERMEDIATE" =>
          /\ \A c \in 32..47 : AsIntermediate(ansi, c)
          /\ \A c \in 64..126 : AsFinal(ansi, c)

(* ------------------------------------------------------------------ *)
(* Escape sequences that are no key                                    *)
(* ------------------------------------------------------------------ *)
(* The step has read the whole sequence ks in READ mode, with no      *)
(* sequence under way before it.                                      *)
SequenceRead(ks) ==
    /\ AtRead /\ EscapeIdle /\ read_back_char = <<>>
    /\ last'.op = "Key" /\ last'.arg = ks

(* C30: an escape sequence that is none of CSI A/B/C/D/F/H without    *)
(* parameter and CSI 1~, 3~, 4~ gives no key and leaves the buffer,   *)
(* the cursor and the mode as they were; its bytes become input only  *)
(* when the escape buffer overflows.                                  *)
C30_UnknownDropped ==
    [][\A ks \in UnknownKeys :
          SequenceRead(ks) =>
             /\ KeyEvents(keys') = <<>>
             /\ UNCHANGED << buf, len, pos, state >>
             /\ read_back_char' = <<>>]_vars

(* ------------------------------------------------------------------ *)
(* The read-back buffer                                                *)
(* ------------------------------------------------------------------ *)
(* The mode that gets the key of the entry e of the log when the mode *)
(* of e pushes it back; "none" when the mode handles the key itself.  *)
PushedTo(e) ==
    IF e.mode = "LS_COMPLETION" /\ e.c \notin {TAB, RCS_ERROR} THEN "LS_READ"
    ELSE IF e.mode = "LS_HISTORY_SEARCH"
            /\ e.c \in LeavingKeys \cup {RCS_CLOSED} THEN "LS_READ"
    ELSE IF e.mode = "LS_READ" /\ e.c = TAB /\ completionCallback # "NULL"
    THEN "LS_COMPLETION"
    ELSE IF e.mode = "LS_READ" /\ e.c = CTRL_R THEN "LS_HISTORY_SEARCH"
    ELSE "none"

Interrupted == last'.op = "Cancel" /\ last'.arg = <<1>>

Viewed == last.op = "refreshSingleLine"

(* C33: for every prompt width p, columns c, length and cursor with   *)
(* 0 <= cursor <= length the view of the single-line refresh starts   *)
(* at s and shows v bytes with s <= cursor, p + (cursor - s) < c,     *)
(* p + v <= c and s + v <= length, and no size_t goes below zero      *)
(* (also when p >= c).                                                *)
C33_SingleLineView ==
    Viewed =>
       LET p == last.arg[1]
           c == last.arg[2]
           length == last.arg[3]
           cursor == last.arg[4]
           s == out[1].text[1]
           v == out[1].text[2]
       IN /\ out[1].op = "view"
          /\ s <= cursor
          /\ p + (cursor - s) < c
          /\ p + v <= c
          /\ s + v <= length

(* ------------------------------------------------------------------ *)
(* The newline of the multi-line refresh                               *)
(* ------------------------------------------------------------------ *)
(* The rows that hold prompt and line: ceil((p + length) / columns). *)
RowsOf(p, length, c) == (p + length + c - 1) \div c

(* C34: the multi-line refresh of a line with the cursor at its end   *)
(* and (p + length) divisible by the columns, length 0 included,      *)
(* emits a trailing newline and counts one more used row, in rows and *)
(* in the maximum of rows used; in every other case it emits none.    *)
C34_TrailingNewline ==
    last.op = "refreshMultiLine" =>
       LET p == last.arg[1]
           c == last.arg[2]
           length == last.arg[3]
           cursor == last.arg[4]
           rows == out[1].text[1]
           maxrows == out[1].text[2]
       IN IF cursor = length /\ (p + length) % c = 0
          THEN /\ out[1].op = "newline"
               /\ rows = RowsOf(p, length, c) + 1
               /\ maxrows >= rows
          ELSE /\ out[1].op = "view"
               /\ rows = RowsOf(p, length, c)

(* ------------------------------------------------------------------ *)
(* The places of the completion listing                                *)
(* ------------------------------------------------------------------ *)
(* How often the index k is among the printed indexes shown. *)
TimesPrinted(shown, k) == Cardinality({ i \in 1..Len(shown) : shown[i] = k })

(* C39: for every number n >= 2 of candidates and every number        *)
(* k >= 1 of listing columns, with rows = ceil(n / k), the listing    *)
(* prints each index 0..n-1 exactly once.                             *)
C39_ListingOnce ==
    last.op = "completeLine" =>
       LET n == last.arg[1]
       IN /\ out[1].n = (n + last.arg[2] - 1) \div last.arg[2]
          /\ \A k \in 0..(n - 1) : TimesPrinted(out[1].text, k) = 1

(* ------------------------------------------------------------------ *)
(* The history across a read-line call                                 *)
(* ------------------------------------------------------------------ *)
(* The call that the walk nav has followed from its start has ended. *)
WalkEnded == nav.ok /\ ret.r # "none" /\ state = "LS_NEW_LINE"

(* C35: a read-line call leaves the history as it found it: after the *)
(* call has returned the history has the same entries in the same     *)
(* order as before the call (nav.h0), also when the call started with *)
(* the history at its cap.                                            *)
C35_HistoryKept == WalkEnded => history = nav.h0

(* ------------------------------------------------------------------ *)
(* Closed is absorbing                                                 *)
(* ------------------------------------------------------------------ *)
(* The step is a call of linenoise() made with the closed flag set. *)
CalledClosed == is_closed /\ last'.op = "Call"

(* C36: closed is absorbing: a call that ends through the end of the  *)
(* input or through CTRL_D on an empty buffer sets the closed flag,   *)
(* the flag stays set, and every later call returns Closed at once,   *)
(* without reading input, adding an entry to the history or changing  *)
(* the buffer.                                                        *)
C36_ClosedAbsorbing ==
    /\ [][ret'.r = "LR_CLOSED" => is_closed']_vars
    /\ [][is_closed => is_closed']_vars
    /\ [][CalledClosed =>
             /\ Closed'
             /\ keys' = <<>> /\ pending' = pending
             /\ read_back_char' = read_back_char
             /\ history' = history
             /\ buf' = buf /\ len' = len /\ pos' = pos
             /\ state' = "LS_NEW_LINE"]_vars

(* CTRL_D on the empty line came with an "a" behind it; the call made *)
(* after it has returned Closed and has left the "a" unread and the   *)
(* entry of the host alone in the history.                            *)
C36_Witness ==
    /\ last.op = "Call" /\ is_closed /\ Closed
    /\ pending = <<97>> /\ keys = <<>>
    /\ history = << <<49>> >>
    /\ Line = <<>>

(* ------------------------------------------------------------------ *)
(* A byte read while the cancel flag is set                            *)
(* ------------------------------------------------------------------ *)
(* The cancel flag was set while the call waited in its read, and the *)
(* read of the step returns the byte last'.arg[1].                    *)
ReadWhileCancelled ==
    /\ last'.op = "Key" /\ Len(last'.arg) = 1
    /\ blocked /\ is_cancelled /\ pending = <<>> /\ read_back_char = <<>>

(* The byte b has been given as a key, or is kept for a later read:   *)
(* in the input, in the read-back buffer or in the escape sequence.   *)
Delivered(b) ==
    \/ \E i \in 1..Len(keys') : keys'[i].c = b
    \/ \E i \in 1..Len(pending') : pending'[i] = b
    \/ \E i \in 1..Len(read_back_char') : read_back_char'[i] = b
    \/ \E i \in 1..Len(ansi'.escape) : ansi'.escape[i] = b
    \/ b = ESC /\ ansi'.timer_is_active

(* C37: no byte is lost to a cancel: when the cancel flag is set      *)
(* while a read that returns one byte is under way, the byte is still *)
(* delivered, as a key or as a part of an escape sequence, and        *)
(* CANCELLED is given as well.                                        *)
C37_NoByteLost ==
    [][ReadWhileCancelled =>
          /\ CancelledGiven(KeyEvents(keys')) = 1
          /\ Delivered(last'.arg[1])]_vars

(* ------------------------------------------------------------------ *)
(* The dispatch of one key through the modes                           *)
(* ------------------------------------------------------------------ *)
(* The step reads at most one key from the input, and nothing was     *)
(* left to read before it.                                            *)
OneKeyStep ==
    /\ last'.op \in {"Call", "Key", "Eof", "Cancel"}
    /\ last'.op = "Key" => Len(last'.arg) = 1
    /\ pending = <<>> /\ read_back_char = <<>>
    /\ ~ansi.timer_is_active

(* How often the step has given the key c to a mode. *)
TimesGiven(es, c) == Cardinality({ i \in 1..Len(es) : es[i].c = c })

(* C38: the dispatch of a key makes progress: a key read from the     *)
(* input is pushed back at most once per change of mode, and it is    *)
(* consumed after at most two changes of mode: the modes get it at    *)
(* most three times, each time another mode, and what was pushed back *)
(* has been read again when the step ends.                            *)
C38_DispatchProgress ==
    [][OneKeyStep =>
          LET es == KeyEvents(keys')
          IN /\ \A i \in 1..Len(es) : TimesGiven(es, es[i].c) <= 3
             /\ \A i \in 1..Len(es) : \A j \in 1..Len(es) :
                   (i # j /\ es[i].c = es[j].c) => es[i].mode # es[j].mode
             /\ read_back_char' = <<>>]_vars

(* CTRL_R was typed while the candidates of a completion were shown:  *)
(* COMPLETION has given it back to READ, READ to the reverse search,  *)
(* which has kept it.                                                 *)
C38_Witness ==
    /\ PressedKey(<<CTRL_R>>)
    /\ keys = << [mode |-> "LS_COMPLETION", c |-> CTRL_R],
                 [mode |-> "LS_READ", c |-> CTRL_R],
                 [mode |-> "LS_HISTORY_SEARCH", c |-> CTRL_R] >>
    /\ state = "LS_HISTORY_SEARCH" /\ read_back_char = <<>>

(* ------------------------------------------------------------------ *)
(* The same input with and without O_NONBLOCK                          *)
(* ------------------------------------------------------------------ *)
(* Both runs have taken the step: ref is the machine of the run       *)
(* without O_NONBLOCK.                                                *)
Paired == nonblock /\ last.op \in {"Call", "Key"} /\ ref # RefIdle

(* The calls of both runs have ended alike: both go on, the one by    *)
(* returning for more input and the other by waiting, or both have    *)
(* returned the same.                                                 *)
EndedAlike ==
    IF Continues THEN ref.blocked /\ ref.ret = NoReturn
    ELSE ~ref.blocked /\ ref.ret = ret

(* C40: the same keys, none of them ESC, give the same in both modes: *)
(* after each key, and after each return for more input and each new  *)
(* call between the keys, the run with O_NONBLOCK has returned the    *)
(* same lines and results and has the same buffer, cursor, mode and   *)
(* history as the run that waits for its input.                       *)
C40_SameInBothModes ==
    Paired =>
       /\ EndedAlike
       /\ Prefix(ref.buf, ref.len) = Prefix(buf, len)
       /\ ref.len = len /\ ref.pos = pos
       /\ ref.state = state
       /\ ref.history = history
       /\ ref.inp = pending

(* Both runs have returned the line "aa" for ENTER, the one after it  *)
(* had returned for more input before.                                *)
C40_Witness ==
    /\ Paired /\ PressedKey(<<ENTER>>)
    /\ is_async /\ ~ref.is_async
    /\ ret.kind = "text" /\ ret.text = <<97, 97>>
    /\ ref.ret = ret

====
